---- MODULE Spec2Model ----
(***************************************************************************)
(* Billing-assistant backend: the anomaly detection engine                 *)
(* (AnomalyDetectionService) and the what-if simulation engine             *)
(* (WhatIfService), with the document store they read.                     *)
(*                                                                         *)
(* Numbers.  JavaScript numbers are modelled by exact integer and rational *)
(* arithmetic.  Money is counted in kurus (1/100 TL), so the code's        *)
(* constants 50, 500 and 1000 TL appear as 5000, 50000 and 100000.         *)
(* A rational is a record [num, den] with den > 0.  The z-score            *)
(* (current - mean) / sqrt(variance) is kept exactly as [num, rad],        *)
(* meaning num / sqrt(rad), and compared through integer square roots.     *)
(* The threshold is counted in tenths (0.8 is 8).                          *)
(* The daily mb_used is a decimal with two places, counted in hundredths   *)
(* of a MB, and the arithmetic of the usage-pattern rule on it is the      *)
(* double arithmetic of the code (section Double arithmetic); so is the    *)
(* arithmetic of the overage quantities in their own section, where a      *)
(* quantity is a decimal with one place.                                   *)
(* Text fields of the outputs (reason, suggested_action, delta, details)   *)
(* are not modelled unless a definition below says so.                     *)
(***************************************************************************)
EXTENDS Integers, Sequences, FiniteSets, TLC

VARIABLES
    \* ---- document store (read-only collaborators) ----
    dbBill,            \* Bill.findByUserAndPeriod(userId, period): a bill or NoBill
    dbHistory,         \* bills of the user with period_start in the 3-month window
    dbUsage,           \* UsageDaily records of the user, per period
    dbFailing,         \* the UsageDaily queries that reject in this run
    period,            \* the target period [year, month]
    dbUser,            \* User.findByUserId(userId): a user or NoUser
    dbPlans,           \* the Plan collection, by plan_id
    dbAddons,          \* the AddOnPack collection, by addon_id
    \* ---- AnomalyDetectionService.detectAnomalies ----
    apc,               \* position inside detectAnomalies
    threshold,         \* in tenths
    currentBill,
    historicalBills,
    categoryAnomalies,
    newItemAnomalies,
    roamingAnomalies,
    usageAnomalies,
    currentUsage,      \* result of getCurrentMonthRoamingUsage
    previousUsage,     \* result of getPreviousMonthRoamingUsage
    dailyUsage,        \* result of getDailyUsageForPeriod
    report,            \* what detectAnomalies returned or threw
    \* ---- WhatIfService ----
    now,               \* the wall clock, a date [year, month, day]
    scenario,          \* the scenario of the calculateWhatIf requests
    scenarios,         \* the scenario list of the compareScenarios request
    wpc,               \* position of the what-if requests
    wRuns,             \* calculateWhatIf calls completed on this service
    result1,           \* what the first calculateWhatIf returned or threw
    now1,              \* the clock when it ran
    result2,           \* what the second calculateWhatIf returned or threw
    comparison,        \* what compareScenarios returned or threw
    \* ---- controllers ----
    timeOfDay,         \* milliseconds since local midnight of the clock: 0, or 1 for more
    periodValid,       \* "true" or "false" as validatePeriodFormat returned, "none" before
    \* ---- AnomalyDetectionService: history and trends ----
    dbLedger,          \* the bills of the user by period, as the history reads them
    months,            \* the months argument of getAnomalyHistory
    history,           \* what getAnomalyHistory returned, NoHistory before
    trends,            \* what analyzeTrends returned, NoTrends before
    \* ---- WhatIfService.compareScenarios, callback by callback ----
    tasks,             \* the scenarios.map callbacks: position and locals of each
    completed,         \* the indexes of the callbacks in the order they settled
    \* ---- the overage quantities of WhatIfService, in double arithmetic ----
    meter,             \* the data_overage quantities of a bill and an effective GB quota
    overage            \* analyzeBill's total_gb, then the data_overage_gb recomputed

storeVars == <<dbBill, dbHistory, dbUsage, dbFailing, period, dbUser, dbPlans, dbAddons>>
anomalyVars == <<apc, threshold, currentBill, historicalBills, categoryAnomalies,
                 newItemAnomalies, roamingAnomalies, usageAnomalies,
                 currentUsage, previousUsage, dailyUsage, report>>
whatIfVars == <<now, scenario, scenarios, wpc, wRuns, result1, now1, result2, comparison>>
controllerVars == <<timeOfDay, periodValid>>
historyVars == <<dbLedger, months, history, trends>>
taskVars == <<tasks, completed>>
meterVars == <<meter, overage>>
vars == <<storeVars, anomalyVars, whatIfVars, controllerVars, historyVars, taskVars, meterVars>>

(***************************************************************************)
(* Arithmetic helpers                                                      *)
(***************************************************************************)
Abs(x) == IF x < 0 THEN -x ELSE x

Min(a, b) == IF a < b THEN a ELSE b

RECURSIVE SumSeq(_)
SumSeq(s) == IF s = <<>> THEN 0 ELSE Head(s) + SumSeq(Tail(s))

RECURSIVE SumSquares(_)
SumSquares(s) == IF s = <<>> THEN 0 ELSE Head(s) * Head(s) + SumSquares(Tail(s))

RECURSIVE MapAmounts(_)
MapAmounts(items) ==
    IF items = <<>> THEN <<>> ELSE <<Head(items).amount>> \o MapAmounts(Tail(items))

\* floor(sqrt(n)) by bisection on lo..hi, with lo*lo <= n < (hi+1)*(hi+1)
RECURSIVE ISqrtIn(_, _, _)
ISqrtIn(n, lo, hi) ==
    IF lo >= hi THEN lo
    ELSE LET mid == (lo + hi + 1) \div 2
         IN IF mid * mid <= n THEN ISqrtIn(n, mid, hi) ELSE ISqrtIn(n, lo, mid - 1)

ISqrt(n) == ISqrtIn(n, 0, 46340)

CeilSqrt(n) == LET r == ISqrt(n) IN IF r * r = n THEN r ELSE r + 1

(***************************************************************************)
(* Records of the store                                                    *)
(***************************************************************************)
NoBill == [missing |-> TRUE]

Item(c, st, a, q) == [category |-> c, subtype |-> st, amount |-> a, quantity |-> q]

Bill(total, items) == [total_amount |-> total, items |-> items]

UsageDay(d, mb, roam) == [usage_date |-> d, mb_used |-> mb, roaming_mb |-> roam]

Period(y, m) == [year |-> y, month |-> m]

(***************************************************************************)
(* AnomalyDetectionService                                                 *)
(***************************************************************************)
defaultThreshold == 8

zScoreThreshold == 2

\* detectCategoryAnomalies: const categories
categories == << "data", "voice", "sms", "premium_sms", "vas", "roaming",
                 "monthly_fee", "data_overage", "voice_overage", "plan",
                 "one_off", "discount" >>

\* detectNewItemAnomalies: const categories
newItemCategories == << "data", "voice", "sms", "premium_sms", "vas", "roaming" >>

IsCategory(item, category) == item.category = category

\* bill.items.filter(category).reduce(sum of amount, 0)
calculateCategoryTotal(bill, category) ==
    SumSeq(MapAmounts(SelectSeq(bill.items, LAMBDA it : IsCategory(it, category))))

RECURSIVE MapCategoryTotal(_, _)
MapCategoryTotal(bills, category) ==
    IF bills = <<>> THEN <<>>
    ELSE <<calculateCategoryTotal(Head(bills), category)>>
         \o MapCategoryTotal(Tail(bills), category)

\* as below, without the guard mean > 0: a division by a zero mean is +Infinity
\* for a positive current value, which exceeds every threshold
performStatisticalAnalysis_NoMeanGuard(currentValue, historicalValues) ==
    LET n == Len(historicalValues)
        S == SumSeq(historicalValues)
        Q == SumSquares(historicalValues)
        V == n * Q - S * S
    IN [ mean |-> [num |-> S, den |-> n],
         variance |-> [num |-> V, den |-> n * n],
         zScore |-> IF V > 0 THEN [num |-> n * currentValue - S, rad |-> V]
                    ELSE [num |-> 0, rad |-> 1],
         percentageChange |-> [num |-> 100 * (n * currentValue - S), den |-> S] ]

\* mean = S/n, variance = (n*Q - S*S)/(n*n) with S the sum and Q the sum of
\* squares; zScore = stdDev > 0 ? (cur - mean)/stdDev : 0, kept as
\* num / sqrt(rad) = (n*cur - S) / sqrt(n*Q - S*S);
\* percentageChange = mean > 0 ? (cur - mean)/mean*100 : 0 = 100*(n*cur - S)/S.
\* Called with a non-empty historicalValues only.
performStatisticalAnalysis(currentValue, historicalValues) ==
    LET n == Len(historicalValues)
        S == SumSeq(historicalValues)
        Q == SumSquares(historicalValues)
        V == n * Q - S * S
    IN [ mean |-> [num |-> S, den |-> n],
         variance |-> [num |-> V, den |-> n * n],
         zScore |-> IF V > 0 THEN [num |-> n * currentValue - S, rad |-> V]
                    ELSE [num |-> 0, rad |-> 1],
         percentageChange |-> IF S > 0 THEN [num |-> 100 * (n * currentValue - S), den |-> S]
                              ELSE [num |-> 0, den |-> 1] ]

\* Math.abs on a z-score
ZAbs(z) == [num |-> Abs(z.num), rad |-> z.rad]

\* z > k and z >= k for an integer k >= 0: num/sqrt(rad) against k
ZGt(z, k) == z.num > ISqrt(k * k * z.rad)

ZGe(z, k) == z.num >= CeilSqrt(k * k * z.rad)

\* a rational against an integer
RatGt(r, k) == r.num > k * r.den

RatGe(r, k) == r.num >= k * r.den

getSeverity(zScore) ==
    IF ZGe(zScore, 3) THEN "high"
    ELSE IF ZGe(zScore, 2) THEN "medium"
    ELSE "low"

getSeverityByPercentage_Strict(percentage) ==
    IF RatGt(percentage, 200) THEN "high"
    ELSE IF RatGt(percentage, 100) THEN "medium"
    ELSE "low"

getSeverityByPercentage(percentage) ==
    IF RatGe(percentage, 200) THEN "high"
    ELSE IF RatGe(percentage, 100) THEN "medium"
    ELSE "low"

\* The anomaly record.  analysis carries the exact statistics the record was
\* built from (the code stores z_score as a 2-decimal string and the delta as
\* text); it is NoAnalysis for the anomalies that have none.
NoAnalysis == [none |-> TRUE]

Anomaly(type, category, amount, average, severity, first, analysis) ==
    [ type |-> type, category |-> category, current_amount |-> amount,
      historical_average |-> average, severity |-> severity,
      first_occurrence |-> first, analysis |-> analysis ]

CategoryStep_BothRules(bill, bills, th, category) ==
    LET currentAmount == calculateCategoryTotal(bill, category)
        historicalAmounts == MapCategoryTotal(bills, category)
    IN IF Len(historicalAmounts) = 0 THEN <<>>
       ELSE LET analysis == performStatisticalAnalysis(currentAmount, historicalAmounts)
            IN (IF ZGt(ZAbs(analysis.zScore), zScoreThreshold)
                THEN << Anomaly("statistical", category, currentAmount, analysis.mean,
                                getSeverity(ZAbs(analysis.zScore)), FALSE, analysis) >>
                ELSE <<>>)
               \o
               (IF RatGt(analysis.percentageChange, th * 10)
                THEN << Anomaly("percentage_increase", category, currentAmount,
                                analysis.mean,
                                getSeverityByPercentage(analysis.percentageChange),
                                FALSE, analysis) >>
                ELSE <<>>)

CategoryStep_PercentageFirst(bill, bills, th, category) ==
    LET currentAmount == calculateCategoryTotal(bill, category)
        historicalAmounts == MapCategoryTotal(bills, category)
    IN IF Len(historicalAmounts) = 0 THEN <<>>
       ELSE LET analysis == performStatisticalAnalysis(currentAmount, historicalAmounts)
            IN IF RatGt(analysis.percentageChange, th * 10)
               THEN << Anomaly("percentage_increase", category, currentAmount,
                               analysis.mean,
                               getSeverityByPercentage(analysis.percentageChange),
                               FALSE, analysis) >>
               ELSE IF ZGt(ZAbs(analysis.zScore), zScoreThreshold)
               THEN << Anomaly("statistical", category, currentAmount, analysis.mean,
                               getSeverity(ZAbs(analysis.zScore)), FALSE, analysis) >>
               ELSE <<>>

CategoryStep_SignedSeverity(bill, bills, th, category) ==
    LET currentAmount == calculateCategoryTotal(bill, category)
        historicalAmounts == MapCategoryTotal(bills, category)
    IN IF Len(historicalAmounts) = 0 THEN <<>>
       ELSE LET analysis == performStatisticalAnalysis(currentAmount, historicalAmounts)
            IN IF ZGt(ZAbs(analysis.zScore), zScoreThreshold)
               THEN << Anomaly("statistical", category, currentAmount, analysis.mean,
                               getSeverity(analysis.zScore), FALSE, analysis) >>
               ELSE IF RatGt(analysis.percentageChange, th * 10)
               THEN << Anomaly("percentage_increase", category, currentAmount,
                               analysis.mean,
                               getSeverityByPercentage(analysis.percentageChange),
                               FALSE, analysis) >>
               ELSE <<>>

\* one iteration of the loop of detectCategoryAnomalies: the anomalies it pushes
CategoryStep(bill, bills, th, category) ==
    LET currentAmount == calculateCategoryTotal(bill, category)
        historicalAmounts == MapCategoryTotal(bills, category)
    IN IF Len(historicalAmounts) = 0 THEN <<>>
       ELSE LET analysis == performStatisticalAnalysis(currentAmount, historicalAmounts)
            IN IF ZGt(ZAbs(analysis.zScore), zScoreThreshold)
               THEN << Anomaly("statistical", category, currentAmount, analysis.mean,
                               getSeverity(ZAbs(analysis.zScore)), FALSE, analysis) >>
               ELSE IF RatGt(analysis.percentageChange, th * 10)
               THEN << Anomaly("percentage_increase", category, currentAmount,
                               analysis.mean,
                               getSeverityByPercentage(analysis.percentageChange),
                               FALSE, analysis) >>
               ELSE <<>>

RECURSIVE CategoryLoop(_, _, _, _)
CategoryLoop(bill, bills, th, cats) ==
    IF cats = <<>> THEN <<>>
    ELSE CategoryStep(bill, bills, th, Head(cats))
         \o CategoryLoop(bill, bills, th, Tail(cats))

detectCategoryAnomalies(bill, bills, th) == CategoryLoop(bill, bills, th, categories)

\* no historical amount counted as usage
HasPositive_Never(amounts) == FALSE

HasPositive(amounts) == \E i \in 1..Len(amounts) : amounts[i] > 0

NewItemStep_IgnoresHistory(bill, bills, category) ==
    LET currentAmount == calculateCategoryTotal(bill, category)
    IN IF currentAmount > 0
       THEN << Anomaly("new_item", category, currentAmount, [num |-> 0, den |-> 1],
                       IF currentAmount > 5000 THEN "high" ELSE "medium",
                       TRUE, NoAnalysis) >>
       ELSE <<>>

NewItemStep(bill, bills, category) ==
    LET currentAmount == calculateCategoryTotal(bill, category)
        historicalAmounts == MapCategoryTotal(bills, category)
        hasHistoricalUsage == HasPositive(historicalAmounts)
    IN IF ~hasHistoricalUsage /\ currentAmount > 0
       THEN << Anomaly("new_item", category, currentAmount, [num |-> 0, den |-> 1],
                       IF currentAmount > 5000 THEN "high" ELSE "medium",
                       TRUE, NoAnalysis) >>
       ELSE <<>>

RECURSIVE NewItemLoop(_, _, _)
NewItemLoop(bill, bills, cats) ==
    IF cats = <<>> THEN <<>>
    ELSE NewItemStep(bill, bills, Head(cats)) \o NewItemLoop(bill, bills, Tail(cats))

detectNewItemAnomalies(bill, bills) == NewItemLoop(bill, bills, newItemCategories)

(***************************************************************************)
(* Double arithmetic.  The daily usage figures are JavaScript numbers,     *)
(* IEEE 754 doubles: a positive double is m * 2^e with 2^52 <= m < 2^53,   *)
(* and an operation returns the double nearest to its exact result, a tie  *)
(* going to the even mantissa.  A mantissa is kept as a natural number in  *)
(* limbs of 15 bits, the lowest first, zero being the empty sequence.      *)
(***************************************************************************)
LimbBase == 2^15

Front(a) == SubSeq(a, 1, Len(a) - 1)

Last(a) == a[Len(a)]

RECURSIVE BigTrim(_)
BigTrim(a) ==
    IF a = <<>> THEN <<>> ELSE IF Last(a) = 0 THEN BigTrim(Front(a)) ELSE a

\* the natural number n, 0 <= n < 2^31
BigOf(n) == BigTrim(<<n % LimbBase, (n \div LimbBase) % LimbBase, n \div (LimbBase * LimbBase)>>)

\* a * k + carry, for 0 < k < LimbBase and 0 <= carry < LimbBase
RECURSIVE BigMulSmall(_, _, _)
BigMulSmall(a, k, carry) ==
    IF a = <<>> THEN (IF carry = 0 THEN <<>> ELSE <<carry>>)
    ELSE <<(Head(a) * k + carry) % LimbBase>>
         \o BigMulSmall(Tail(a), k, (Head(a) * k + carry) \div LimbBase)

\* the limbs of (r * LimbBase^Len(a) + a) \div n, for 0 <= r < n < LimbBase
RECURSIVE BigQuot(_, _, _)
BigQuot(a, n, r) ==
    IF a = <<>> THEN <<>>
    ELSE BigQuot(Front(a), n, (r * LimbBase + Last(a)) % n)
         \o <<(r * LimbBase + Last(a)) \div n>>

\* (r * LimbBase^Len(a) + a) % n
RECURSIVE BigRem(_, _, _)
BigRem(a, n, r) ==
    IF a = <<>> THEN r ELSE BigRem(Front(a), n, (r * LimbBase + Last(a)) % n)

RECURSIVE BigAdd(_, _, _)
BigAdd(a, b, carry) ==
    IF a = <<>> /\ b = <<>> THEN (IF carry = 0 THEN <<>> ELSE <<carry>>)
    ELSE <<((IF a = <<>> THEN 0 ELSE Head(a)) + (IF b = <<>> THEN 0 ELSE Head(b)) + carry)
             % LimbBase>>
         \o BigAdd(IF a = <<>> THEN <<>> ELSE Tail(a), IF b = <<>> THEN <<>> ELSE Tail(b),
                   ((IF a = <<>> THEN 0 ELSE Head(a)) + (IF b = <<>> THEN 0 ELSE Head(b)) + carry)
                       \div LimbBase)

RECURSIVE BigLess(_, _)
BigLess(a, b) ==
    IF Len(a) # Len(b) THEN Len(a) < Len(b)
    ELSE IF a = <<>> THEN FALSE
    ELSE IF Last(a) # Last(b) THEN Last(a) < Last(b)
    ELSE BigLess(Front(a), Front(b))

RECURSIVE IntBits(_)
IntBits(n) == IF n = 0 THEN 0 ELSE 1 + IntBits(n \div 2)

\* the number of bits of a
BigBits(a) == IF a = <<>> THEN 0 ELSE 15 * (Len(a) - 1) + IntBits(Last(a))

BigOdd(a) == a # <<>> /\ a[1] % 2 = 1

\* a * 2^s
RECURSIVE BigShl(_, _)
BigShl(a, s) ==
    IF s = 0 THEN a
    ELSE IF s >= 14 THEN BigShl(BigMulSmall(a, 2^14, 0), s - 14)
    ELSE BigMulSmall(a, 2^s, 0)

\* a \div 2^s
RECURSIVE BigShr(_, _)
BigShr(a, s) ==
    IF s = 0 THEN a
    ELSE IF s >= 14 THEN BigShr(BigTrim(BigQuot(a, 2^14, 0)), s - 14)
    ELSE BigTrim(BigQuot(a, 2^s, 0))

Double(m, e) == [m |-> m, e |-> e]

DZero == Double(<<>>, 0)

\* the mantissa q of 53 bits with the bits dropped below it: half is the
\* highest of them, below whether any lower one (or a remainder) is set
RoundEven(q, half, below) ==
    IF half /\ (below \/ BigOdd(q)) THEN BigAdd(q, <<1>>, 0) ELSE q

\* m * 2^e with m of 53 or 54 bits (54 when rounding carried to 2^53)
Renormalized(m, e) ==
    IF BigBits(m) = 54 THEN Double(BigShr(m, 1), e + 1) ELSE Double(m, e)

\* the double nearest to n * 2^e (plus a fraction of 2^e if sticky), where n
\* has bl bits: more than 53 if sticky
RoundBits(n, e, sticky, bl) ==
    IF bl = 0 THEN DZero
    ELSE IF bl <= 53 THEN Double(BigShl(n, 53 - bl), e - (53 - bl))
    ELSE Renormalized(RoundEven(BigShr(n, bl - 53),
                                BigOdd(BigShr(n, bl - 54)),
                                sticky \/ BigShl(BigShr(n, bl - 54), bl - 54) # n),
                      e + (bl - 53))

Round53(n, e, sticky) == RoundBits(n, e, sticky, BigBits(n))

\* the double of an integer 0 <= n < 2^31
DOfInt(n) == Round53(BigOf(n), 0, FALSE)

\* x / n for an integer 0 < n < 2^12: the quotient of the mantissa shifted by
\* 14 bits has at least 55 bits
DDivInt(x, n) ==
    IF x.m = <<>> THEN DZero
    ELSE Round53(BigTrim(BigQuot(BigShl(x.m, 14), n, 0)), x.e - 14,
                 BigRem(BigShl(x.m, 14), n, 0) # 0)

\* x * k for an integer 0 < k < LimbBase
DMulInt(x, k) == Round53(BigMulSmall(x.m, k, 0), x.e, FALSE)

\* x + y
DAdd(x, y) ==
    IF x.m = <<>> THEN y
    ELSE IF y.m = <<>> THEN x
    ELSE IF x.e <= y.e THEN Round53(BigAdd(x.m, BigShl(y.m, y.e - x.e), 0), x.e, FALSE)
    ELSE Round53(BigAdd(BigShl(x.m, x.e - y.e), y.m, 0), y.e, FALSE)

\* a - b for a >= b, limb by limb with a borrow
RECURSIVE BigSub(_, _, _)
BigSub(a, b, borrow) ==
    IF a = <<>> THEN <<>>
    ELSE <<(Head(a) - (IF b = <<>> THEN 0 ELSE Head(b)) - borrow + LimbBase) % LimbBase>>
         \o BigSub(Tail(a), IF b = <<>> THEN <<>> ELSE Tail(b),
                   IF Head(a) - (IF b = <<>> THEN 0 ELSE Head(b)) - borrow < 0 THEN 1 ELSE 0)

\* x - y for x >= y
DSub(x, y) ==
    IF y.m = <<>> THEN x
    ELSE IF x.e <= y.e
         THEN Round53(BigTrim(BigSub(x.m, BigShl(y.m, y.e - x.e), 0)), x.e, FALSE)
    ELSE Round53(BigTrim(BigSub(BigShl(x.m, x.e - y.e), y.m, 0)), y.e, FALSE)

\* x > y
DGt(x, y) ==
    IF x.m = <<>> THEN FALSE
    ELSE IF y.m = <<>> THEN TRUE
    ELSE IF x.e # y.e THEN x.e > y.e
    ELSE BigLess(y.m, x.m)

\* the double a decimal with two places is stored as: the nearest to v / 100
ToDouble(v) == DDivInt(DOfInt(v), 100)

\* the double a decimal with one place is stored as: the nearest to v / 10
Tenths(v) == DDivInt(DOfInt(v), 10)

(***************************************************************************)
(* Roaming and daily usage                                                 *)
(***************************************************************************)
RECURSIVE SumRoaming(_)
SumRoaming(usage) ==
    IF usage = <<>> THEN 0 ELSE Head(usage).roaming_mb + SumRoaming(Tail(usage))

\* day.mb_used as the number the document holds
MbUsed(day) == ToDouble(day.mb_used)

RECURSIVE SumMbFrom(_, _)
SumMbFrom(sum, usage) ==
    IF usage = <<>> THEN sum
    ELSE SumMbFrom(DAdd(sum, MbUsed(Head(usage))), Tail(usage))

\* dailyUsage.reduce((sum, day) => sum + day.mb_used, 0)
SumMb(usage) == SumMbFrom(DZero, usage)

\* UsageDaily.find({user_id, usage_date in the month of p}): the stored days of p
UsageOf(p) == IF p \in DOMAIN dbUsage THEN dbUsage[p] ELSE <<>>

ZeroRoaming == [roaming_mb |-> 0, roaming_days |-> 0, roaming_cost |-> 0]

\* getCurrentMonthRoamingUsage; rejects is whether its query throws.
\* roaming_cost is totalRoamingMB * 0.5 TL, here in kurus.
getCurrentMonthRoamingUsage(p, rejects) ==
    IF rejects THEN ZeroRoaming
    ELSE LET usage == UsageOf(p)
             totalRoamingMB == SumRoaming(usage)
         IN [ roaming_mb |-> totalRoamingMB,
              roaming_days |-> Len(SelectSeq(usage, LAMBDA day : day.roaming_mb > 0)),
              roaming_cost |-> totalRoamingMB * 50 ]

\* previousDate.setMonth(getMonth() - 1), formatted back as YYYY-MM
PreviousPeriod(p) ==
    IF p.month = 1 THEN Period(p.year - 1, 12) ELSE Period(p.year, p.month - 1)

getPreviousMonthRoamingUsage(p, rejects) ==
    getCurrentMonthRoamingUsage(PreviousPeriod(p), rejects)

RoamingRules_ElseIf(cur, prev) ==
    IF cur.roaming_mb > 0 /\ prev.roaming_mb = 0
    THEN << Anomaly("roaming_new", "roaming", cur.roaming_cost, [num |-> 0, den |-> 1],
                    "high", TRUE, NoAnalysis) >>
    ELSE IF cur.roaming_mb > 1000
    THEN << Anomaly("roaming_excessive", "roaming", cur.roaming_cost,
                    [num |-> 0, den |-> 1], "high", FALSE, NoAnalysis) >>
    ELSE <<>>

\* the two rules of detectRoamingAnomalies on the fetched usages
RoamingRules(cur, prev) ==
    (IF cur.roaming_mb > 0 /\ prev.roaming_mb = 0
     THEN << Anomaly("roaming_new", "roaming", cur.roaming_cost, [num |-> 0, den |-> 1],
                     "high", TRUE, NoAnalysis) >>
     ELSE <<>>)
    \o
    (IF cur.roaming_mb > 1000
     THEN << Anomaly("roaming_excessive", "roaming", cur.roaming_cost,
                     [num |-> 0, den |-> 1], "high", FALSE, NoAnalysis) >>
     ELSE <<>>)

\* the days of the store even from a query that rejects
getDailyUsageForPeriod_IgnoresFailure(p, rejects) == UsageOf(p)

getDailyUsageForPeriod(p, rejects) == IF rejects THEN <<>> ELSE UsageOf(p)

\* the first of the high usage days, whatever the others
MaxUsageDay_First(max, days) == max

\* highUsageDays.reduce((max, day) => day.mb_used > max.mb_used ? day : max)
RECURSIVE MaxUsageDay(_, _)
MaxUsageDay(max, days) ==
    IF days = <<>> THEN max
    ELSE MaxUsageDay(IF DGt(MbUsed(Head(days)), MbUsed(max)) THEN Head(days) ELSE max,
                     Tail(days))

\* totalMB / dailyUsage.length
avgDailyMB(days) == DDivInt(SumMb(days), Len(days))

\* day.mb_used > avgDailyMB * 3
IsHighUsage(day, avg) == DGt(MbUsed(day), DMulInt(avg, 3))

\* dailyUsage.filter((day) => day.mb_used > avgDailyMB * 3)
HighUsageDays(days) ==
    CHOOSE high \in { SelectSeq(days, LAMBDA day : IsHighUsage(day, avg)) :
                        avg \in {avgDailyMB(days)} } : TRUE

\* the body of detectUsagePatternAnomalies on the fetched days; the anomaly
\* carries the spike day in analysis (usage_details)
UsagePatternRules(days) ==
    IF Len(days) = 0 THEN <<>>
    ELSE CHOOSE out \in
           { IF Len(highUsageDays) > 0
             THEN << Anomaly("usage_spike", "data", 0, [num |-> 0, den |-> 1], "medium",
                             FALSE,
                             CHOOSE a \in
                               { [max_usage_mb |-> maxUsageDay.mb_used,
                                  spike_date |-> maxUsageDay.usage_date] :
                                 maxUsageDay \in {MaxUsageDay(Head(highUsageDays),
                                                              Tail(highUsageDays))} } : TRUE) >>
             ELSE <<>> : highUsageDays \in {HighUsageDays(days)} } : TRUE

(***************************************************************************)
(* Risk score                                                              *)
(***************************************************************************)
SeverityPoints(anomaly) ==
    CASE anomaly.severity = "high" -> 3
      [] anomaly.severity = "medium" -> 2
      [] anomaly.severity = "low" -> 1
      [] OTHER -> 0

AnomalyPoints_NoCategoryBonus(anomaly) ==
    SeverityPoints(anomaly) + (IF anomaly.first_occurrence THEN 1 ELSE 0)

AnomalyPoints(anomaly) ==
    SeverityPoints(anomaly)
    + (IF anomaly.first_occurrence THEN 1 ELSE 0)
    + (IF anomaly.category \in {"premium_sms", "roaming"} THEN 1 ELSE 0)

RECURSIVE SumPoints(_)
SumPoints(anomalies) ==
    IF anomalies = <<>> THEN 0
    ELSE AnomalyPoints(Head(anomalies)) + SumPoints(Tail(anomalies))

calculateRiskScore_NoClamp(anomalies, totalAmount) ==
    SumPoints(anomalies)
    + (IF totalAmount > 50000 THEN 1 ELSE 0)
    + (IF totalAmount > 100000 THEN 2 ELSE 0)

calculateRiskScore(anomalies, totalAmount) ==
    IF Len(anomalies) = 0 THEN 0
    ELSE Min(10, SumPoints(anomalies)
                 + (IF totalAmount > 50000 THEN 1 ELSE 0)
                 + (IF totalAmount > 100000 THEN 2 ELSE 0))

\* a scenario: fields is the set of properties the object has, the other
\* fields their values (those of an absent property are not read)
Scenario(fields, planId, addons, vas, premium, roaming) ==
    [ fields |-> fields, plan_id |-> planId, addons |-> addons, disable_vas |-> vas,
      block_premium_sms |-> premium, enable_roaming_block |-> roaming ]

Plan(id, price, gb, min, sms, ogb, omin, osms, active) ==
    [ plan_id |-> id, monthly_price |-> price, quota_gb |-> gb, quota_min |-> min,
      quota_sms |-> sms, overage_gb |-> ogb, overage_min |-> omin, overage_sms |-> osms,
      is_active |-> active ]

AddOnPack(id, gb, min, sms, price, plans, active) ==
    [ addon_id |-> id, extra_gb |-> gb, extra_min |-> min, extra_sms |-> sms,
      price |-> price, compatible_plans |-> plans, is_active |-> active ]

User(planId) == [current_plan_id |-> planId]

Date(y, m, d) == [year |-> y, month |-> m, day |-> d]

\* what new Date() reads, in the order of time
ClockReadings == << Date(2025, 1, 15), Date(2025, 1, 31), Date(2025, 2, 1) >>

(***************************************************************************)
(* WhatIfService                                                           *)
(***************************************************************************)
NoUser == [missing |-> TRUE]

NoPlan == [missing |-> TRUE]

NoAddon == [missing |-> TRUE]

\* this.taxRate = 0.2, in percent
taxRate == 20

Rat(n) == [num |-> n, den |-> 1]

\* Number.prototype.toFixed on the exact value num/den (den > 0), as a count
\* of the last kept decimal: the nearest integer, a tie away from zero
RoundHalfAway(num, den) ==
    IF num >= 0 THEN (2 * num + den) \div (2 * den)
    ELSE -((2 * (-num) + den) \div (2 * den))

\* Plan.findByPlanId: findOne({plan_id, is_active: true})
findByPlanId_IgnoresActive(planId) ==
    IF planId \in DOMAIN dbPlans THEN dbPlans[planId] ELSE NoPlan

findByPlanId(planId) ==
    IF planId \in DOMAIN dbPlans /\ dbPlans[planId].is_active THEN dbPlans[planId] ELSE NoPlan

\* AddOnPack.findOne({addon_id, is_active: true})
findAddon_IgnoresActive(addonId) ==
    IF addonId \in DOMAIN dbAddons THEN dbAddons[addonId] ELSE NoAddon

findAddon(addonId) ==
    IF addonId \in DOMAIN dbAddons /\ dbAddons[addonId].is_active
    THEN dbAddons[addonId] ELSE NoAddon

\* JavaScript truthiness of the scenario's fields
HasPlanId_Never(sc) == FALSE

HasPlanId(sc) == "plan_id" \in sc.fields /\ sc.plan_id # 0

HasAddons(sc) == "addons" \in sc.fields

HasFlag_Never(sc, f) == FALSE

HasFlag(sc, f) == f \in sc.fields /\ sc[f]

RECURSIVE SumQuantity(_)
SumQuantity(items) ==
    IF items = <<>> THEN 0 ELSE Head(items).quantity + SumQuantity(Tail(items))

OverageQuantity(bill, category, subtype) ==
    SumQuantity(SelectSeq(bill.items,
                          LAMBDA it : it.category = category /\ it.subtype = subtype))

\* analyzeBill: the usage part (the category totals it also collects are not read)
analyzeBill_Accumulating(bill) ==
    [ usage |-> [ total_gb |-> (wRuns + 1) * OverageQuantity(bill, "data", "data_overage"),
                  total_minutes |->
                      (wRuns + 1) * OverageQuantity(bill, "voice", "voice_overage"),
                  total_sms |-> (wRuns + 1) * OverageQuantity(bill, "sms", "sms_overage") ] ]

analyzeBill(bill) ==
    [ usage |-> [ total_gb |-> OverageQuantity(bill, "data", "data_overage"),
                  total_minutes |-> OverageQuantity(bill, "voice", "voice_overage"),
                  total_sms |-> OverageQuantity(bill, "sms", "sms_overage") ] ]

Max_Smaller(a, b) == IF a < b THEN a ELSE b

Max(a, b) == IF a > b THEN a ELSE b

\* the billed overage set against the effective quotas: overage by which the
\* usage, taken as the billed overage alone, exceeds the quota
calculateUsageCharges_AgainstQuota(usage, plan, effectiveGB, effectiveMin, effectiveSMS) ==
    [ data_overage |-> Max(0, usage.total_gb - effectiveGB) * plan.overage_gb,
      voice_overage |-> Max(0, usage.total_minutes - effectiveMin) * plan.overage_min,
      sms_overage |-> Max(0, usage.total_sms - effectiveSMS) * plan.overage_sms,
      total |-> Max(0, usage.total_gb - effectiveGB) * plan.overage_gb
                + Max(0, usage.total_minutes - effectiveMin) * plan.overage_min
                + Max(0, usage.total_sms - effectiveSMS) * plan.overage_sms,
      data_overage_gb |-> Max(0, usage.total_gb - effectiveGB),
      voice_overage_min |-> Max(0, usage.total_minutes - effectiveMin),
      sms_overage_sms |-> Max(0, usage.total_sms - effectiveSMS),
      effective_quotas |-> [gb |-> effectiveGB, minutes |-> effectiveMin,
                            sms |-> effectiveSMS] ]

calculateUsageCharges(usage, plan, effectiveGB, effectiveMin, effectiveSMS) ==
    LET totalGB == effectiveGB + usage.total_gb
        totalMinutes == effectiveMin + usage.total_minutes
        totalSMS == effectiveSMS + usage.total_sms
        dataOverageGB == Max(0, totalGB - effectiveGB)
        voiceOverageMin == Max(0, totalMinutes - effectiveMin)
        smsOverageSMS == Max(0, totalSMS - effectiveSMS)
        dataOverageCost == dataOverageGB * plan.overage_gb
        voiceOverageCost == voiceOverageMin * plan.overage_min
        smsOverageCost == smsOverageSMS * plan.overage_sms
    IN [ data_overage |-> dataOverageCost,
         voice_overage |-> voiceOverageCost,
         sms_overage |-> smsOverageCost,
         total |-> dataOverageCost + voiceOverageCost + smsOverageCost,
         data_overage_gb |-> dataOverageGB,
         voice_overage_min |-> voiceOverageMin,
         sms_overage_sms |-> smsOverageSMS,
         effective_quotas |-> [gb |-> effectiveGB, minutes |-> effectiveMin,
                               sms |-> effectiveSMS] ]

\* the add-on loop of calculateScenario: the accumulators after the ids
RECURSIVE AddonLoop(_, _, _)
AddonLoop(ids, planId, acc) ==
    IF ids = <<>> THEN acc
    ELSE LET addon == findAddon(Head(ids))
         IN IF addon = NoAddon THEN AddonLoop(Tail(ids), planId, acc)
            ELSE AddonLoop(Tail(ids), planId,
                   [ gb |-> acc.gb + addon.extra_gb,
                     min |-> acc.min + addon.extra_min,
                     sms |-> acc.sms + addon.extra_sms,
                     cost |-> acc.cost + addon.price,
                     details |-> Append(acc.details, <<"addon", addon.addon_id>>),
                     risk |-> IF planId \in addon.compatible_plans THEN acc.risk
                              ELSE Append(acc.risk, addon.addon_id) ])

NoAddons == [gb |-> 0, min |-> 0, sms |-> 0, cost |-> 0, details |-> <<>>, risk |-> <<>>]

\* an optional key of breakdown
Entry(present, key, value) == IF present THEN key :> value ELSE <<>>

\* generateRecommendations: the lines it pushes
generateRecommendations(sc, usageCalculation) ==
    (IF usageCalculation.data_overage = 0 /\ usageCalculation.voice_overage = 0
     THEN <<"overage_eliminated">> ELSE <<>>)
    \o (IF HasPlanId(sc) THEN <<"plan_next_period">> ELSE <<>>)
    \o (IF HasAddons(sc) /\ Len(sc.addons) > 0 THEN <<"addons_immediate">> ELSE <<>>)
    \o (IF usageCalculation.data_overage > 0 THEN <<"data_overage_remains">> ELSE <<>>)

\* calculateScenario.  Lines of details and recommendations are tags; taxes
\* and the unrounded total are rationals; new_total is in kurus.
calculateScenario(bill, currentPlan, user, sc, currentAnalysis) ==
    LET changesPlan == HasPlanId(sc) /\ sc.plan_id # currentPlan.plan_id
        newPlan == IF changesPlan THEN findByPlanId(sc.plan_id) ELSE currentPlan
    IN IF newPlan = NoPlan THEN [status |-> "error", error |-> "Yeni plan bulunamadi"]
       ELSE
       LET effectivePlan == newPlan
           takesAddons == HasAddons(sc) /\ Len(sc.addons) > 0
           addons == IF takesAddons THEN AddonLoop(sc.addons, effectivePlan.plan_id, NoAddons)
                     ELSE NoAddons
           usageCalculation ==
               calculateUsageCharges(currentAnalysis.usage, effectivePlan,
                                     effectivePlan.quota_gb + addons.gb,
                                     effectivePlan.quota_min + addons.min,
                                     effectivePlan.quota_sms + addons.sms)
           disableVas == HasFlag(sc, "disable_vas")
           blockPremium == HasFlag(sc, "block_premium_sms")
           blockRoaming == HasFlag(sc, "enable_roaming_block")
           vasCost == IF disableVas THEN 0 ELSE calculateCategoryTotal(bill, "vas")
           premiumSMSCost ==
               IF blockPremium THEN 0 ELSE calculateCategoryTotal(bill, "premium_sms")
           roamingCost ==
               IF blockRoaming THEN 0 ELSE calculateCategoryTotal(bill, "roaming")
           currentRoamingCost == calculateCategoryTotal(bill, "roaming")
           oneOffCost == calculateCategoryTotal(bill, "one_off")
           discountAmount == calculateCategoryTotal(bill, "discount")
           preTax == effectivePlan.monthly_price + addons.cost + usageCalculation.total
                     + vasCost + premiumSMSCost + roamingCost
                     + oneOffCost - discountAmount
           taxes == [num |-> preTax * taxRate, den |-> 100]
           newTotal == [num |-> preTax * (100 + taxRate), den |-> 100]
       IN [ status |-> "ok", error |-> "",
            new_total |-> RoundHalfAway(newTotal.num, newTotal.den),
            unrounded_total |-> newTotal,
            details |->
                (IF changesPlan THEN << <<"plan_change", effectivePlan.plan_id>> >> ELSE <<>>)
                \o addons.details
                \o (IF usageCalculation.data_overage > 0 THEN << <<"data_overage">> >> ELSE <<>>)
                \o (IF usageCalculation.voice_overage > 0 THEN << <<"voice_overage">> >>
                    ELSE <<>>)
                \o (IF disableVas THEN << <<"vas_cancel">> >> ELSE <<>>)
                \o (IF blockPremium THEN << <<"premium_sms_block">> >> ELSE <<>>)
                \o (IF blockRoaming /\ currentRoamingCost > 0 THEN << <<"roaming_block">> >>
                    ELSE <<>>)
                \o << <<"taxes">> >>,
            breakdown |->
                ("plan" :> Rat(effectivePlan.monthly_price))
                @@ Entry(takesAddons, "addons", Rat(addons.cost))
                @@ Entry(usageCalculation.data_overage > 0, "data_overage",
                         Rat(usageCalculation.data_overage))
                @@ Entry(usageCalculation.voice_overage > 0, "voice_overage",
                         Rat(usageCalculation.voice_overage))
                @@ Entry(~disableVas, "vas", Rat(vasCost))
                @@ Entry(~blockPremium, "premium_sms", Rat(premiumSMSCost))
                @@ Entry(~blockRoaming, "roaming", Rat(roamingCost))
                @@ Entry(oneOffCost > 0, "one_off", Rat(oneOffCost))
                @@ Entry(discountAmount > 0, "discount", Rat(-discountAmount))
                @@ ("taxes" :> taxes),
            recommendations |->
                (IF disableVas THEN <<"vas_cancel_manual">> ELSE <<>>)
                \o (IF blockPremium THEN <<"premium_sms_block_free">> ELSE <<>>)
                \o (IF blockRoaming /\ currentRoamingCost > 0
                    THEN <<"roaming_block_removable">> ELSE <<>>)
                \o generateRecommendations(sc, usageCalculation),
            risk_factors |-> addons.risk,
            usage_analysis |-> usageCalculation ]

\* generateScenarioSummary: the actions it lists
generateScenarioSummary(sc) ==
    (IF HasPlanId(sc) THEN << <<"plan_change">> >> ELSE <<>>)
    \o (IF HasAddons(sc) THEN << <<"addons", Len(sc.addons)>> >> ELSE <<>>)
    \o (IF HasFlag(sc, "disable_vas") THEN << <<"vas_cancel">> >> ELSE <<>>)
    \o (IF HasFlag(sc, "block_premium_sms") THEN << <<"premium_sms_block">> >> ELSE <<>>)

DaysInMonth(y, m) ==
    IF m = 2 THEN (IF y % 4 = 0 /\ (y % 100 # 0 \/ y % 400 = 0) THEN 29 ELSE 28)
    ELSE IF m \in {4, 6, 9, 11} THEN 30 ELSE 31

\* calculateEffectiveDate: setMonth(getMonth() + 1) keeps the day of the month
\* and runs over into the month after when the next month is too short; then
\* setDate(1)
calculateEffectiveDate(date) ==
    LET y == IF date.month = 12 THEN date.year + 1 ELSE date.year
        m == IF date.month = 12 THEN 1 ELSE date.month + 1
        over == date.day > DaysInMonth(y, m)
        y2 == IF over /\ m = 12 THEN y + 1 ELSE y
        m2 == IF over THEN (IF m = 12 THEN 1 ELSE m + 1) ELSE m
    IN [year |-> y2, month |-> m2, day |-> 1]

\* saving / total_amount * 100 and its toFixed(1), in tenths of a percent;
\* a zero total_amount divides by zero
SavingPercent(saving, total) ==
    IF total # 0
    THEN [kind |-> "finite", tenths |-> RoundHalfAway(saving * 1000, total)]
    ELSE [kind |-> IF saving = 0 THEN "NaN"
                   ELSE IF saving > 0 THEN "Infinity" ELSE "-Infinity",
          tenths |-> 0]

WhatIfError(msg) == [status |-> "error", error |-> msg]

\* calculateWhatIf, against the store and the clock
calculateWhatIf(sc, date) ==
    IF dbBill = NoBill THEN WhatIfError("Mevcut donem faturasi bulunamadi")
    ELSE IF dbUser = NoUser THEN WhatIfError("Kullanici bulunamadi")
    ELSE LET currentPlan == findByPlanId(dbUser.current_plan_id)
         IN IF currentPlan = NoPlan THEN WhatIfError("Mevcut plan bulunamadi")
            ELSE LET currentAnalysis == analyzeBill(dbBill)
                     scenarioResult ==
                         calculateScenario(dbBill, currentPlan, dbUser, sc, currentAnalysis)
                 IN IF scenarioResult.status = "error" THEN WhatIfError(scenarioResult.error)
                    ELSE LET saving == dbBill.total_amount - scenarioResult.new_total
                         IN [ status |-> "ok", error |-> "",
                              current_total |-> dbBill.total_amount,
                              new_total |-> scenarioResult.new_total,
                              saving |-> saving,
                              saving_percent |-> SavingPercent(saving, dbBill.total_amount),
                              details |-> scenarioResult.details,
                              breakdown |-> scenarioResult.breakdown,
                              recommendations |-> scenarioResult.recommendations,
                              scenario_summary |-> generateScenarioSummary(sc),
                              effective_date |-> calculateEffectiveDate(date),
                              risk_factors |-> scenarioResult.risk_factors ]

\* generateScenarioName: the parts it joins
generateScenarioName(sc) ==
    (IF HasPlanId(sc) THEN << <<"plan_change">> >> ELSE <<>>)
    \o (IF HasAddons(sc) /\ Len(sc.addons) > 0 THEN << <<"addons", Len(sc.addons)>> >>
        ELSE <<>>)
    \o (IF HasFlag(sc, "disable_vas") THEN << <<"vas_cancel">> >> ELSE <<>>)
    \o (IF HasFlag(sc, "block_premium_sms") THEN << <<"premium_sms_block">> >> ELSE <<>>)
    \o (IF HasFlag(sc, "enable_roaming_block") THEN << <<"roaming_block">> >> ELSE <<>>)

getScenarioType(sc) ==
    IF HasPlanId(sc) /\ HasAddons(sc) THEN "comprehensive"
    ELSE IF HasPlanId(sc) THEN "plan_change"
    ELSE IF HasAddons(sc) THEN "addon_only"
    ELSE IF HasFlag(sc, "disable_vas") \/ HasFlag(sc, "block_premium_sms")
         THEN "cost_reduction"
    ELSE "optimization"

assessFeasibility(sc) ==
    IF HasPlanId(sc) \/ (HasAddons(sc) /\ Len(sc.addons) > 3) THEN "conditional" ELSE "high"

\* assessRiskLevel, the score counted in halves
assessRiskLevel(sc) ==
    LET riskScore == (IF HasPlanId(sc) THEN 2 ELSE 0)
                     + (IF HasFlag(sc, "disable_vas") THEN 1 ELSE 0)
                     + (IF HasFlag(sc, "enable_roaming_block") THEN 4 ELSE 0)
    IN IF riskScore >= 5 THEN "high" ELSE IF riskScore >= 3 THEN "medium" ELSE "low"

FirstN(s, n) == SubSeq(s, 1, Min(n, Len(s)))

EntryOf_ErrorUnmarked(sc, index, result) ==
    [ id |-> index + 1,
      name |-> generateScenarioName(sc),
      error |-> "",
      total |-> IF result.status = "ok" THEN result.new_total ELSE dbBill.total_amount,
      saving |-> IF result.status = "ok" THEN result.saving ELSE 0,
      rank |-> 0 ]

\* the entry compareScenarios builds at position index + 1 from what
\* calculateWhatIf returned or threw; an entry without error has error = ""
EntryOf(sc, index, result) ==
    IF result.status = "ok"
    THEN [ id |-> index + 1,
           name |-> generateScenarioName(sc),
           error |-> "",
           total |-> result.new_total,
           saving |-> result.saving,
           saving_percent |-> result.saving_percent,
           details |-> FirstN(result.details, 3),
           rank |-> 0,
           scenario_type |-> getScenarioType(sc),
           feasibility |-> assessFeasibility(sc),
           risk_level |-> assessRiskLevel(sc) ]
    ELSE [ id |-> index + 1,
           name |-> << <<"scenario", index + 1>> >>,
           error |-> result.error,
           total |-> dbBill.total_amount,
           saving |-> 0,
           rank |-> 999 ]

\* the callback of scenarios.map: one calculateWhatIf call for the scenario
ScenarioEntry(sc, index, date) ==
    CHOOSE entry \in { EntryOf(sc, index, result) : result \in {calculateWhatIf(sc, date)} } :
        TRUE

\* the entries of the scenarios from position index + 1 on
RECURSIVE MapScenarios(_, _, _)
MapScenarios(scs, index, date) ==
    IF scs = <<>> THEN <<>>
    ELSE <<ScenarioEntry(Head(scs), index, date)>> \o MapScenarios(Tail(scs), index + 1, date)

\* the comparator handed to validResults.sort
SavingOrder_Ascending(a, b) == a.saving - b.saving

SavingOrder(a, b) == b.saving - a.saving

\* Array.prototype.sort is stable: an entry goes behind every entry the
\* comparator does not put after it
RECURSIVE InsertSorted(_, _)
InsertSorted(e, sorted) ==
    IF sorted = <<>> THEN <<e>>
    ELSE IF SavingOrder(Head(sorted), e) <= 0
         THEN <<Head(sorted)>> \o InsertSorted(e, Tail(sorted))
         ELSE <<e>> \o sorted

RECURSIVE SortBySaving(_)
SortBySaving(rs) ==
    IF rs = <<>> THEN <<>>
    ELSE InsertSorted(rs[Len(rs)], SortBySaving(SubSeq(rs, 1, Len(rs) - 1)))

\* validResults.forEach((result, index) => result.rank = index + 1)
AssignRanks(sorted) == [i \in 1..Len(sorted) |-> [sorted[i] EXCEPT !.rank = i]]

\* the entry of results as validResults.forEach left it
Ranked(r, validResults) ==
    IF r.error # "" THEN r
    ELSE validResults[CHOOSE i \in 1..Len(validResults) : validResults[i].id = r.id]

\* what compareScenarios returns for the mapped results and the sorted and
\* ranked entries without error.  validResults holds the very objects of
\* results, so the ranks written through it show in results, which stays in
\* input order.
Comparison(results, validResults, date) ==
    [ status |-> "ok", error |-> "",
      current_total |-> dbBill.total_amount,
      scenarios |-> [i \in 1..Len(results) |-> Ranked(results[i], validResults)],
      valid_results |-> validResults,    \* the local, as generateComparisonSummary reads it
      best_scenario |-> IF Len(validResults) > 0 THEN <<validResults[1]>> ELSE <<>>,
      analysis_date |-> date ]

compareScenarios(scs, date) ==
    IF dbBill = NoBill THEN WhatIfError("Mevcut donem faturasi bulunamadi")
    ELSE CHOOSE out \in
           { Comparison(results, validResults, date) :
               results \in {MapScenarios(scs, 0, date)},
               validResults \in
                   {AssignRanks(SortBySaving(SelectSeq(MapScenarios(scs, 0, date),
                                                       LAMBDA r : r.error = "")))} } : TRUE

(***************************************************************************)
(* detectAnomalies, step by step (one action per awaited call)             *)
(***************************************************************************)
NoReport == [ status |-> "none", error |-> "", anomalies |-> <<>>, total_anomalies |-> 0,
              risk_score |-> 0, comparison_months |-> 0, threshold_used |-> 0 ]

ErrorReport(msg) == [NoReport EXCEPT !.status = "error", !.error = msg]

\* const currentBill = await Bill.findByUserAndPeriod(userId, period)
FindCurrentBill ==
    /\ apc = "start"
    /\ IF dbBill = NoBill
       THEN /\ report' = ErrorReport("Mevcut donem faturasi bulunamadi")
            /\ apc' = "done"
            /\ UNCHANGED currentBill
       ELSE /\ currentBill' = dbBill
            /\ apc' = "history"
            /\ UNCHANGED report
    /\ UNCHANGED <<storeVars, controllerVars, historyVars, taskVars, meterVars, whatIfVars, threshold, historicalBills, categoryAnomalies,
                   newItemAnomalies, roamingAnomalies, usageAnomalies,
                   currentUsage, previousUsage, dailyUsage>>

\* const historicalBills = await this.getHistoricalBills(userId, period)
GetHistoricalBills ==
    /\ apc = "history"
    /\ historicalBills' = dbHistory
    /\ apc' = "category"
    /\ UNCHANGED <<storeVars, controllerVars, historyVars, taskVars, meterVars, whatIfVars, threshold, currentBill, categoryAnomalies,
                   newItemAnomalies, roamingAnomalies, usageAnomalies,
                   currentUsage, previousUsage, dailyUsage, report>>

DetectCategoryAnomalies ==
    /\ apc = "category"
    /\ categoryAnomalies' = detectCategoryAnomalies(currentBill, historicalBills, threshold)
    /\ apc' = "new_item"
    /\ UNCHANGED <<storeVars, controllerVars, historyVars, taskVars, meterVars, whatIfVars, threshold, currentBill, historicalBills,
                   newItemAnomalies, roamingAnomalies, usageAnomalies,
                   currentUsage, previousUsage, dailyUsage, report>>

DetectNewItemAnomalies ==
    /\ apc = "new_item"
    /\ newItemAnomalies' = detectNewItemAnomalies(currentBill, historicalBills)
    /\ apc' = "roaming_current"
    /\ UNCHANGED <<storeVars, controllerVars, historyVars, taskVars, meterVars, whatIfVars, threshold, currentBill, historicalBills,
                   categoryAnomalies, roamingAnomalies, usageAnomalies,
                   currentUsage, previousUsage, dailyUsage, report>>

\* detectRoamingAnomalies, up to its first await
RoamingCurrentUsage ==
    /\ apc = "roaming_current"
    /\ currentUsage' = getCurrentMonthRoamingUsage(period, "roaming_current" \in dbFailing)
    /\ apc' = "roaming_previous"
    /\ UNCHANGED <<storeVars, controllerVars, historyVars, taskVars, meterVars, whatIfVars, threshold, currentBill, historicalBills,
                   categoryAnomalies, newItemAnomalies, roamingAnomalies, usageAnomalies,
                   previousUsage, dailyUsage, report>>

\* detectRoamingAnomalies, from its second await to its return
RoamingPreviousUsage ==
    /\ apc = "roaming_previous"
    /\ LET prev == getPreviousMonthRoamingUsage(period, "roaming_previous" \in dbFailing)
       IN /\ previousUsage' = prev
          /\ roamingAnomalies' = RoamingRules(currentUsage, prev)
    /\ apc' = "usage"
    /\ UNCHANGED <<storeVars, controllerVars, historyVars, taskVars, meterVars, whatIfVars, threshold, currentBill, historicalBills,
                   categoryAnomalies, newItemAnomalies, usageAnomalies,
                   currentUsage, dailyUsage, report>>

DetectUsagePatternAnomalies ==
    /\ apc = "usage"
    /\ LET days == getDailyUsageForPeriod(period, "daily" \in dbFailing)
       IN /\ dailyUsage' = days
          /\ usageAnomalies' = UsagePatternRules(days)
    /\ apc' = "risk"
    /\ UNCHANGED <<storeVars, controllerVars, historyVars, taskVars, meterVars, whatIfVars, threshold, currentBill, historicalBills,
                   categoryAnomalies, newItemAnomalies, roamingAnomalies,
                   currentUsage, previousUsage, report>>

allAnomalies == categoryAnomalies \o newItemAnomalies \o roamingAnomalies \o usageAnomalies

\* the risk score and the returned report
ReturnReport ==
    /\ apc = "risk"
    /\ report' = [ status |-> "ok", error |-> "",
                   anomalies |-> allAnomalies,
                   total_anomalies |-> Len(allAnomalies),
                   risk_score |-> calculateRiskScore(allAnomalies, currentBill.total_amount),
                   comparison_months |-> Len(historicalBills),
                   threshold_used |-> threshold ]
    /\ apc' = "done"
    /\ UNCHANGED <<storeVars, controllerVars, historyVars, taskVars, meterVars, whatIfVars, threshold, currentBill, historicalBills,
                   categoryAnomalies, newItemAnomalies, roamingAnomalies, usageAnomalies,
                   currentUsage, previousUsage, dailyUsage>>

(***************************************************************************)
(* Controllers: validatePeriodFormat                                       *)
(***************************************************************************)
\* the order of instants: a date with the milliseconds since midnight (0 or 1)
Instant(date, ms) == ((date.year * 12 + (date.month - 1)) * 32 + date.day) * 2 + ms

\* Date.prototype.setFullYear(getFullYear() - 2): the same day of the same
\* month, a 29th of February running over into the 1st of March of a year
\* that has none
TwoYearsAgo(date) ==
    IF date.day > DaysInMonth(date.year - 2, date.month)
    THEN Date(date.year - 2, date.month + 1, 1)
    ELSE Date(date.year - 2, date.month, date.day)

\* validatePeriodFormat for a period the pattern YYYY-MM admits, the clock
\* reading date and ms
validatePeriodFormat(p, date, ms) ==
    LET first == Instant(Date(p.year, p.month, 1), 0)
    IN /\ ~(first > Instant(date, ms))
       /\ ~(first < Instant(TwoYearsAgo(date), ms))

\* a request's period is validated
ValidatePeriod ==
    /\ periodValid = "none"
    /\ periodValid' = IF validatePeriodFormat(period, now, timeOfDay) THEN "true" ELSE "false"
    /\ UNCHANGED <<storeVars, anomalyVars, whatIfVars, historyVars, taskVars, meterVars, timeOfDay>>

(***************************************************************************)
(* The what-if requests                                                    *)
(***************************************************************************)
NoResult == [status |-> "none"]

\* a first calculateWhatIf request
CalculateWhatIf ==
    /\ wpc = "idle"
    /\ result1' = calculateWhatIf(scenario, now)
    /\ now1' = now
    /\ wRuns' = wRuns + 1
    /\ wpc' = "once"
    /\ UNCHANGED <<storeVars, controllerVars, historyVars, taskVars, meterVars, anomalyVars, now, scenario, scenarios, result2, comparison>>

\* the clock moves on between two requests
Tick ==
    /\ wpc = "once"
    /\ \E i \in 1..(Len(ClockReadings) - 1) :
          /\ now = ClockReadings[i]
          /\ now' = ClockReadings[i + 1]
    /\ UNCHANGED <<storeVars, controllerVars, historyVars, taskVars, meterVars, anomalyVars, scenario, scenarios, wpc, wRuns, result1, now1,
                   result2, comparison>>

\* the same request once more, the store as it was
CalculateWhatIfAgain ==
    /\ wpc = "once"
    /\ result2' = calculateWhatIf(scenario, now)
    /\ wRuns' = wRuns + 1
    /\ wpc' = "twice"
    /\ UNCHANGED <<storeVars, controllerVars, historyVars, taskVars, meterVars, anomalyVars, now, scenario, scenarios, result1, now1,
                   comparison>>

\* a compareScenarios request
CompareScenarios ==
    /\ wpc = "idle"
    /\ comparison' = compareScenarios(scenarios, now)
    /\ wRuns' = wRuns + Len(scenarios)
    /\ wpc' = "compared"
    /\ UNCHANGED <<storeVars, controllerVars, historyVars, taskVars, meterVars, anomalyVars, now, scenario, scenarios, result1, now1, result2>>

(***************************************************************************)
(* compareScenarios, callback by callback.  Promise.all starts one         *)
(* callback per scenario; each runs to its next await and the event loop   *)
(* resumes them in any order.  The locals of a callback (the documents its *)
(* awaits returned) are its own; the service object holds taxRate alone.   *)
(* The awaits inside calculateScenario read the plan and add-on            *)
(* collections, which no request writes, and are taken in one step.        *)
(***************************************************************************)
Task(pc, bill, user, plan, entry) ==
    [ pc |-> pc, bill |-> bill, user |-> user, plan |-> plan, entry |-> entry ]

\* the callback as scenarios.map started it: waiting for the bill
NewTask == Task("bill", NoBill, NoUser, NoPlan, NoResult)

\* the scenario of the callback at position i, a closure of the scenario it
\* was started with whenever it is resumed
TaskScenario_Shared(i) == scenarios[Len(completed) + 1]

TaskScenario(i) == scenarios[i]

\* what calculateWhatIf returns once calculateScenario has returned
WhatIfResult(bill, sc, scenarioResult, date) ==
    IF scenarioResult.status = "error" THEN WhatIfError(scenarioResult.error)
    ELSE [ status |-> "ok", error |-> "",
           current_total |-> bill.total_amount,
           new_total |-> scenarioResult.new_total,
           saving |-> bill.total_amount - scenarioResult.new_total,
           saving_percent |-> SavingPercent(bill.total_amount - scenarioResult.new_total,
                                            bill.total_amount),
           details |-> scenarioResult.details,
           breakdown |-> scenarioResult.breakdown,
           recommendations |-> scenarioResult.recommendations,
           scenario_summary |-> generateScenarioSummary(sc),
           effective_date |-> calculateEffectiveDate(date),
           risk_factors |-> scenarioResult.risk_factors ]

\* calculateWhatIf from its last await on, with the documents it holds
WhatIfFrom(bill, user, currentPlan, sc, date) ==
    CHOOSE result \in
        { WhatIfResult(bill, sc, scenarioResult, date) :
            scenarioResult \in
                {calculateScenario(bill, currentPlan, user, sc, analyzeBill(bill))} } : TRUE

\* the callback settled with the entry of a result
Settled(t, sc, index, result) ==
    [t EXCEPT !.pc = "done", !.entry = EntryOf(sc, index, result)]

\* the callback at position index + 1 resumed after the await it stands at
StepTask(t, sc, index, date) ==
    CASE t.pc = "bill" ->
             IF dbBill = NoBill
             THEN Settled(t, sc, index, WhatIfError("Mevcut donem faturasi bulunamadi"))
             ELSE [t EXCEPT !.pc = "user", !.bill = dbBill]
      [] t.pc = "user" ->
             IF dbUser = NoUser
             THEN Settled(t, sc, index, WhatIfError("Kullanici bulunamadi"))
             ELSE [t EXCEPT !.pc = "plan", !.user = dbUser]
      [] t.pc = "plan" ->
             IF findByPlanId(t.user.current_plan_id) = NoPlan
             THEN Settled(t, sc, index, WhatIfError("Mevcut plan bulunamadi"))
             ELSE [t EXCEPT !.pc = "scenario", !.plan = findByPlanId(t.user.current_plan_id)]
      [] t.pc = "scenario" ->
             Settled(t, sc, index, WhatIfFrom(t.bill, t.user, t.plan, sc, date))

\* compareScenarios up to Promise.all: the bill read, the callbacks started
StartCompare ==
    /\ wpc = "idle"
    /\ IF dbBill = NoBill
       THEN /\ comparison' = WhatIfError("Mevcut donem faturasi bulunamadi")
            /\ wpc' = "compared"
            /\ UNCHANGED tasks
       ELSE /\ tasks' = [ i \in 1..Len(scenarios) |-> NewTask ]
            /\ wpc' = "comparing"
            /\ UNCHANGED comparison
    /\ UNCHANGED <<storeVars, controllerVars, historyVars, meterVars, anomalyVars, now, scenario,
                   scenarios, wRuns, result1, now1, result2, completed>>

\* the event loop resumes one of the callbacks
ResumeTask ==
    /\ wpc = "comparing"
    /\ \E i \in DOMAIN tasks :
          /\ tasks[i].pc # "done"
          /\ \E t \in { StepTask(tasks[i], TaskScenario(i), i - 1, now) } :
                /\ tasks' = [tasks EXCEPT ![i] = t]
                /\ completed' = IF t.pc = "done" THEN Append(completed, i) ELSE completed
    /\ UNCHANGED <<storeVars, controllerVars, historyVars, meterVars, anomalyVars, whatIfVars>>

TaskEntries == [ i \in DOMAIN tasks |-> tasks[i].entry ]

\* Promise.all resolves with the entries in the order of the scenarios; the
\* rest of compareScenarios
GatherResults ==
    /\ wpc = "comparing"
    /\ \A i \in DOMAIN tasks : tasks[i].pc = "done"
    /\ comparison' =
           Comparison(TaskEntries,
                      AssignRanks(SortBySaving(SelectSeq(TaskEntries, LAMBDA r : r.error = ""))),
                      now)
    /\ wRuns' = wRuns + Len(scenarios)
    /\ wpc' = "compared"
    /\ UNCHANGED <<storeVars, controllerVars, historyVars, taskVars, meterVars, anomalyVars, now,
                   scenario, scenarios, result1, now1, result2>>

(***************************************************************************)
(* Overage quantities in double arithmetic                                 *)
(* The quantity of a bill item is a decimal with one place, counted here   *)
(* in tenths of a GB; the effective quota is a whole number of GB.         *)
(***************************************************************************)
\* analysis.usage.total_gb += item.quantity over the data_overage items
RECURSIVE TotalGbFrom(_, _)
TotalGbFrom(total_gb, quantities) ==
    IF quantities = <<>> THEN total_gb
    ELSE TotalGbFrom(DAdd(total_gb, Tenths(Head(quantities))), Tail(quantities))

\* Math.max(0, x) of a double that is not negative
DMax0(x) == IF DGt(DZero, x) THEN DZero ELSE x

\* totalGB = effectiveGB + usage.total_gb, then Math.max(0, totalGB - effectiveGB)
dataOverageGB(total_gb, effectiveGB) ==
    CHOOSE d \in { DMax0(DSub(totalGB, DOfInt(effectiveGB))) :
                   totalGB \in {DAdd(DOfInt(effectiveGB), total_gb)} } : TRUE

\* analyzeBill, for the data overage of the bill
AnalyzeUsage ==
    /\ overage.pc = "bill"
    /\ overage' = [pc |-> "charges", total_gb |-> TotalGbFrom(DZero, meter.quantities)]
    /\ UNCHANGED <<storeVars, anomalyVars, whatIfVars, controllerVars, historyVars,
                   taskVars, meter>>

\* calculateUsageCharges, for the data overage quantity
CalculateOverage ==
    /\ overage.pc = "charges"
    /\ overage' = [pc |-> "done", total_gb |-> overage.total_gb,
                   data_overage_gb |-> dataOverageGB(overage.total_gb, meter.effectiveGB)]
    /\ UNCHANGED <<storeVars, anomalyVars, whatIfVars, controllerVars, historyVars,
                   taskVars, meter>>

(***************************************************************************)
(* Input domains                                                           *)
(***************************************************************************)
MaxItems == 2

MaxHistItems == 1

MaxHistory == 3

MaxDays == 4

SeqsUpTo(S, n) == UNION { [1..k -> S] : k \in 0..n }

ItemsOf(cats, amounts) == { Item(c, "usage", a, 1) : c \in cats, a \in amounts }

NoHistory == [status |-> "none", records |-> <<>>]

NoTrends == [status |-> "none"]

\* no history or trend request
HistoryIdle ==
    /\ dbLedger = <<>>
    /\ months = 0
    /\ history = NoHistory
    /\ trends = NoTrends

\* no compareScenarios callback started
OverageIdle == [pc |-> "bill"]

MeterIdle ==
    /\ meter = [quantities |-> <<>>, effectiveGB |-> 0]
    /\ overage = OverageIdle

TasksIdle ==
    /\ tasks = <<>>
    /\ completed = <<>>

\* no request being validated
ControllerIdle ==
    /\ timeOfDay = 1
    /\ periodValid = "none"

\* the locals of detectAnomalies before the call
AnomalyLocalsFresh ==
    /\ categoryAnomalies = <<>>
    /\ newItemAnomalies = <<>>
    /\ roamingAnomalies = <<>>
    /\ usageAnomalies = <<>>
    /\ currentUsage = ZeroRoaming
    /\ previousUsage = ZeroRoaming
    /\ dailyUsage = <<>>
    /\ report = NoReport

PlanCatalog ==
    (1 :> Plan(1, 9999, 10, 500, 100, 500, 30, 25, TRUE))
    @@ (2 :> Plan(2, 7999, 20, 1000, 200, 333, 20, 15, TRUE))
    @@ (3 :> Plan(3, 4999, 5, 100, 50, 700, 40, 35, FALSE))

AddonCatalog ==
    (1 :> AddOnPack(1, 5, 0, 0, 2505, {1}, TRUE))
    @@ (2 :> AddOnPack(2, 0, 100, 50, 1000, {2}, TRUE))
    @@ (3 :> AddOnPack(3, 10, 0, 0, 500, {1, 2}, FALSE))

EmptyScenario == Scenario({}, 0, <<>>, FALSE, FALSE, FALSE)

\* no what-if request made yet
WhatIfFresh ==
    /\ wpc = "idle"
    /\ wRuns = 0
    /\ now = ClockReadings[1]
    /\ now1 = ClockReadings[1]
    /\ result1 = NoResult
    /\ result2 = NoResult
    /\ comparison = NoResult

\* the store and the requests of the what-if engine, at rest
WhatIfIdle ==
    /\ dbUser = User(1)
    /\ dbPlans = PlanCatalog
    /\ dbAddons = AddonCatalog
    /\ scenario = EmptyScenario
    /\ scenarios = <<>>
    /\ WhatIfFresh

Thresholds == {0, 8, 50}

CatCurrentItems ==
    ItemsOf({"data"}, {19, 100, 5100}) \cup ItemsOf({"premium_sms"}, {19, 5100})

CatHistoryItems == ItemsOf({"data"}, {19, 20, 22}) \cup ItemsOf({"premium_sms"}, {20})

\* Category rules: bills that vary, no daily usage.  The run stands where
\* detectCategoryAnomalies is called, the two bill reads done.
InitCat ==
    /\ dbBill \in { Bill(12000, its) : its \in SeqsUpTo(CatCurrentItems, MaxItems) }
    /\ dbHistory \in SeqsUpTo({ Bill(12000, its) :
                                 its \in SeqsUpTo(CatHistoryItems, MaxHistItems) },
                              MaxHistory)
    /\ dbUsage = <<>>
    /\ dbFailing = {}
    /\ period = Period(2025, 7)
    /\ threshold \in Thresholds
    /\ apc = "category"
    /\ currentBill = dbBill
    /\ historicalBills = dbHistory
    /\ AnomalyLocalsFresh
    /\ WhatIfIdle
    /\ ControllerIdle
    /\ HistoryIdle
    /\ TasksIdle
    /\ MeterIdle

NextCat == DetectCategoryAnomalies \/ DetectNewItemAnomalies

SpecCat == InitCat /\ [][NextCat]_vars

\* daily records: usage_date is the day of the month, in stored order
RECURSIVE DaysFrom(_, _)
DaysFrom(values, d) ==
    IF values = <<>> THEN <<>>
    ELSE <<UsageDay(d, Head(values)[1], Head(values)[2])>> \o DaysFrom(Tail(values), d + 1)

\* <<mb_used, roaming_mb>> of a day, mb_used in hundredths of a MB
DayValues == { <<0, 0>>, <<400, 0>>, <<0, 500>>, <<0, 1500>> }

LongMonthDays == 7

\* months of LongMonthDays days with up to two days of heavy use among idle days
LongMonths ==
    { [ i \in 1..LongMonthDays |-> IF i = a THEN <<va, 0>>
                                   ELSE IF i = b THEN <<vb, 0>> ELSE <<0, 0>> ] :
        a \in 1..LongMonthDays, b \in 1..LongMonthDays, va \in {700, 800}, vb \in {700, 800} }

\* months of three days, one of them with 1892.78 MB and the others idle
FractionalMonths ==
    { [ i \in 1..3 |-> IF i = a THEN <<189278, 0>> ELSE <<0, 0>> ] : a \in 1..3 }

\* a target period with the period before it
PeriodPairs == { <<Period(2025, 7), Period(2025, 6)>>, <<Period(2025, 1), Period(2024, 12)>> }

UsageReads == {"roaming_current", "roaming_previous", "daily"}

\* Roaming and usage rules: daily usage that varies, one bill.  The run stands
\* where detectRoamingAnomalies is called.
InitUsage ==
    /\ dbBill = Bill(12000, <<>>)
    /\ dbHistory = <<>>
    /\ \E pp \in PeriodPairs, cur \in SeqsUpTo(DayValues, MaxDays) \cup LongMonths \cup FractionalMonths,
          prev \in { <<>>, << <<0, 500>> >> } :
          /\ period = pp[1]
          /\ dbUsage = (pp[1] :> DaysFrom(cur, 1)) @@ (pp[2] :> DaysFrom(prev, 1))
    /\ dbFailing \in SUBSET UsageReads
    /\ threshold = defaultThreshold
    /\ apc = "roaming_current"
    /\ currentBill = dbBill
    /\ historicalBills = dbHistory
    /\ AnomalyLocalsFresh
    /\ WhatIfIdle
    /\ ControllerIdle
    /\ HistoryIdle
    /\ TasksIdle
    /\ MeterIdle

NextUsage == RoamingCurrentUsage \/ RoamingPreviousUsage \/ DetectUsagePatternAnomalies

SpecUsage == InitUsage /\ [][NextUsage]_vars

\* The whole of detectAnomalies, from the call on.
Init ==
    /\ dbBill \in {NoBill}
          \cup { Bill(t, its) :
                   t \in {12000, 120000},
                   its \in SeqsUpTo(ItemsOf({"premium_sms"}, {100, 5100})
                                    \cup ItemsOf({"data"}, {100}), MaxHistItems) }
    /\ dbHistory \in SeqsUpTo({ Bill(12000, its) :
                                 its \in SeqsUpTo(ItemsOf({"premium_sms"}, {20}),
                                                  MaxHistItems) },
                              MaxHistory)
    /\ period = Period(2025, 7)
    /\ \E cur \in { <<>>, << <<0, 500>> >>, << <<0, 1500>> >>,
                    << <<0, 0>>, <<0, 0>>, <<0, 0>>, <<400, 0>> >> },
          prev \in { <<>>, << <<0, 500>> >> } :
          dbUsage = (Period(2025, 7) :> DaysFrom(cur, 1))
                    @@ (Period(2025, 6) :> DaysFrom(prev, 1))
    /\ dbFailing \in SUBSET UsageReads
    /\ threshold = defaultThreshold
    /\ apc = "start"
    /\ currentBill = NoBill
    /\ historicalBills = <<>>
    /\ AnomalyLocalsFresh
    /\ WhatIfIdle
    /\ ControllerIdle
    /\ HistoryIdle
    /\ TasksIdle
    /\ MeterIdle

Next ==
    \/ FindCurrentBill
    \/ GetHistoricalBills
    \/ DetectCategoryAnomalies
    \/ DetectNewItemAnomalies
    \/ RoamingCurrentUsage
    \/ RoamingPreviousUsage
    \/ DetectUsagePatternAnomalies
    \/ ReturnReport

Spec == Init /\ [][Next]_vars

RiskCurrentItems ==
    ItemsOf({"premium_sms"}, {100, 5100}) \cup ItemsOf({"data"}, {190, 500})

\* detectAnomalies on bills around the two totals the risk score looks at,
\* with anomalies of every severity
InitRisk ==
    /\ dbBill \in { Bill(t, its) : t \in {12000, 50000, 50001, 100000, 100001},
                                   its \in SeqsUpTo(RiskCurrentItems, MaxItems) }
    /\ dbHistory \in SeqsUpTo({ Bill(12000, its) :
                                 its \in SeqsUpTo(ItemsOf({"data"}, {100}), MaxHistItems) },
                              MaxHistory)
    /\ period = Period(2025, 7)
    /\ \E cur \in { <<>>, << <<0, 1500>> >> } :
          dbUsage = (Period(2025, 7) :> DaysFrom(cur, 1)) @@ (Period(2025, 6) :> <<>>)
    /\ dbFailing = {}
    /\ threshold = defaultThreshold
    /\ apc = "start"
    /\ currentBill = NoBill
    /\ historicalBills = <<>>
    /\ AnomalyLocalsFresh
    /\ WhatIfIdle
    /\ ControllerIdle
    /\ HistoryIdle
    /\ TasksIdle
    /\ MeterIdle

SpecRisk == InitRisk /\ [][Next]_vars

\* the anomaly engine at rest
AnomalyIdle ==
    /\ dbHistory = <<>>
    /\ dbUsage = <<>>
    /\ dbFailing = {}
    /\ period = Period(2025, 7)
    /\ threshold = defaultThreshold
    /\ apc = "start"
    /\ currentBill = NoBill
    /\ historicalBills = <<>>
    /\ AnomalyLocalsFresh

\* bill items the what-if engine tells apart
WhatIfItems ==
    << Item("data", "data_overage", 1500, 3),
       Item("data", "data_overage", 1000, 2),
       Item("data", "usage", 400, 1),
       Item("voice", "voice_overage", 600, 20),
       Item("sms", "sms_overage", 250, 10),
       Item("vas", "subscription", 999, 1),
       Item("premium_sms", "premium", 505, 1),
       Item("roaming", "roaming_data", 2000, 1),
       Item("one_off", "fee", 300, 1),
       Item("discount", "promo", 201, 1) >>

\* the selections of up to n items, in stored order
Selections(items, n) ==
    UNION { { [i \in 1..k |-> items[f[i]]] :
                f \in { g \in [1..k -> 1..Len(items)] :
                          \A i \in 1..(k - 1) : g[i] < g[i + 1] } } : k \in 0..n }

WhatIfBills == { Bill(t, its) : t \in {0, 12345}, its \in Selections(WhatIfItems, MaxItems) }

ScenarioOf(planId, addons, flags) ==
    Scenario((IF planId = 0 THEN {} ELSE {"plan_id"})
             \cup (IF addons = <<0>> THEN {} ELSE {"addons"}) \cup flags,
             planId, IF addons = <<0>> THEN <<>> ELSE addons,
             "disable_vas" \in flags, "block_premium_sms" \in flags,
             "enable_roaming_block" \in flags)

\* plan_id 0 and addons <<0>> stand for the property being absent
Scenarios ==
    { ScenarioOf(p, a, f) :
        p \in 0..3, a \in { <<0>>, <<>>, <<1>>, <<2, 3>> },
        f \in SUBSET {"disable_vas", "block_premium_sms", "enable_roaming_block"} }

\* calculateWhatIf, asked twice
InitWhatIf ==
    /\ AnomalyIdle
    /\ dbPlans = PlanCatalog
    /\ dbAddons = AddonCatalog
    /\ \/ /\ dbBill \in WhatIfBills
          /\ dbUser = User(1)
          /\ scenario \in Scenarios
       \/ /\ dbBill \in {NoBill, Bill(12345, <<>>)}
          /\ dbUser \in {NoUser, User(1), User(3), User(9)}
          /\ scenario \in { EmptyScenario, ScenarioOf(2, <<0>>, {}), ScenarioOf(3, <<0>>, {}),
                          ScenarioOf(9, <<0>>, {}) }
       \/ /\ dbBill \in {Bill(12345, <<>>), Bill(12345, <<WhatIfItems[1]>>)}
          /\ dbUser = User(1)
          /\ scenario \in {ScenarioOf(0, <<9, 1>>, {}), ScenarioOf(2, <<9, 1, 2>>, {})}
    /\ scenarios = <<>>
    /\ WhatIfFresh
    /\ ControllerIdle
    /\ HistoryIdle
    /\ TasksIdle
    /\ MeterIdle

NextWhatIf == CalculateWhatIf \/ Tick \/ CalculateWhatIfAgain

SpecWhatIf == InitWhatIf /\ [][NextWhatIf]_vars

MaxScenarios == 3

ComparedScenarios ==
    { EmptyScenario, ScenarioOf(2, <<0>>, {}), ScenarioOf(3, <<0>>, {}),
      ScenarioOf(0, <<0>>, {"disable_vas"}), ScenarioOf(0, <<1>>, {}) }

\* compareScenarios
InitCompare ==
    /\ AnomalyIdle
    /\ dbPlans = PlanCatalog
    /\ dbAddons = AddonCatalog
    /\ dbBill \in { NoBill, Bill(0, <<>>), Bill(12345, <<WhatIfItems[6]>>),
                    Bill(12345, <<WhatIfItems[1], WhatIfItems[8]>>) }
    /\ dbUser \in {NoUser, User(1)}
    /\ scenario = EmptyScenario
    /\ scenarios \in SeqsUpTo(ComparedScenarios, MaxScenarios)
    /\ WhatIfFresh
    /\ ControllerIdle
    /\ HistoryIdle
    /\ TasksIdle
    /\ MeterIdle

NextCompare == CompareScenarios

SpecCompare == InitCompare /\ [][NextCompare]_vars

MaxTasks == 2

\* compareScenarios with its callbacks interleaved
InitConcurrent ==
    /\ AnomalyIdle
    /\ dbPlans = PlanCatalog
    /\ dbAddons = AddonCatalog
    /\ dbBill \in { NoBill, Bill(12345, <<WhatIfItems[6]>>),
                    Bill(12345, <<WhatIfItems[1], WhatIfItems[8]>>) }
    /\ dbUser \in {NoUser, User(1), User(3)}
    /\ scenario = EmptyScenario
    /\ scenarios \in SeqsUpTo(ComparedScenarios, MaxTasks)
    /\ WhatIfFresh
    /\ ControllerIdle
    /\ HistoryIdle
    /\ TasksIdle
    /\ MeterIdle

NextConcurrent == StartCompare \/ ResumeTask \/ GatherResults

SpecConcurrent == InitConcurrent /\ [][NextConcurrent]_vars

MaxOverageItems == 2

\* quantities of data_overage items, in tenths of a GB
OverageTenths == {0, 3, 10, 25}

\* effectivePlan.quota_gb + totalAddonGB
EffectiveQuotas == {5, 10, 15, 20, 50}

\* Overage quantities: the data_overage items of a bill and an effective quota
InitMeter ==
    /\ AnomalyIdle
    /\ WhatIfIdle
    /\ ControllerIdle
    /\ HistoryIdle
    /\ TasksIdle
    /\ dbBill = NoBill
    /\ \E qs \in SeqsUpTo(OverageTenths, MaxOverageItems), gb \in EffectiveQuotas :
          meter = [quantities |-> qs, effectiveGB |-> gb]
    /\ overage = OverageIdle

NextMeter == AnalyzeUsage \/ CalculateOverage

SpecMeter == InitMeter /\ [][NextMeter]_vars

\* the month n months after (before, for n < 0) the month of date
MonthsFrom(date, n) ==
    LET k == date.year * 12 + (date.month - 1) + n
    IN Period(k \div 12, (k % 12) + 1)

ClockDates ==
    { Date(y, m, d) : y \in {2024, 2025}, m \in 1..12, d \in {1, 15, 28, 29, 30, 31} }

\* validatePeriodFormat: any day of two years, at midnight and later, and the
\* months from 26 before to 1 after the clock's
InitPeriod ==
    /\ now \in { d \in ClockDates : d.day <= DaysInMonth(d.year, d.month) }
    /\ timeOfDay \in {0, 1}
    /\ period \in { MonthsFrom(now, n) : n \in -26..1 }
    /\ periodValid = "none"
    /\ HistoryIdle
    /\ TasksIdle
    /\ MeterIdle
    /\ dbBill = NoBill
    /\ dbHistory = <<>>
    /\ dbUsage = <<>>
    /\ dbFailing = {}
    /\ threshold = defaultThreshold
    /\ apc = "start"
    /\ currentBill = NoBill
    /\ historicalBills = <<>>
    /\ AnomalyLocalsFresh
    /\ dbUser = User(1)
    /\ dbPlans = PlanCatalog
    /\ dbAddons = AddonCatalog
    /\ scenario = EmptyScenario
    /\ scenarios = <<>>
    /\ wpc = "idle"
    /\ wRuns = 0
    /\ now1 = now
    /\ result1 = NoResult
    /\ result2 = NoResult
    /\ comparison = NoResult

NextPeriod == ValidatePeriod

SpecPeriod == InitPeriod /\ [][NextPeriod]_vars

(***************************************************************************)
(* AnomalyDetectionService: getAnomalyHistory and analyzeTrends            *)
(***************************************************************************)
minimumHistoryMonths == 3

\* the threshold getAnomalyHistory passes on, 0.7
historyThreshold == 7

\* the months analyzeTrends asks the history of
trendMonths == 3

\* Bill.findByUserAndPeriod, on the bills by period
LedgerBill(p) == IF p \in DOMAIN dbLedger THEN dbLedger[p] ELSE NoBill

\* getHistoricalBills: the bills of the k months before p, the latest first
RECURSIVE LedgerHistory(_, _)
LedgerHistory(p, k) ==
    IF k = 0 THEN <<>>
    ELSE (IF LedgerBill(PreviousPeriod(p)) = NoBill THEN <<>>
          ELSE <<LedgerBill(PreviousPeriod(p))>>)
         \o LedgerHistory(PreviousPeriod(p), k - 1)

\* the four detections of detectAnomalies, concatenated
AnomaliesAt(p, th, bill, bills) ==
    detectCategoryAnomalies(bill, bills, th)
    \o detectNewItemAnomalies(bill, bills)
    \o RoamingRules(getCurrentMonthRoamingUsage(p, "roaming_current" \in dbFailing),
                    getPreviousMonthRoamingUsage(p, "roaming_previous" \in dbFailing))
    \o UsagePatternRules(getDailyUsageForPeriod(p, "daily" \in dbFailing))

ReportOf(all, bill, bills, th) ==
    [ status |-> "ok", error |-> "",
      anomalies |-> all,
      total_anomalies |-> Len(all),
      risk_score |-> calculateRiskScore(all, bill.total_amount),
      comparison_months |-> Len(bills),
      threshold_used |-> th ]

\* detectAnomalies(userId, p, th) as one call
detectAnomalies(p, th) ==
    IF LedgerBill(p) = NoBill THEN ErrorReport("Mevcut donem faturasi bulunamadi")
    ELSE CHOOSE r \in { ReportOf(all, LedgerBill(p), LedgerHistory(p, minimumHistoryMonths), th) :
                        all \in { AnomaliesAt(p, th, LedgerBill(p),
                                              LedgerHistory(p, minimumHistoryMonths)) } } : TRUE

IsHigh(a) == a.severity = "high"

\* generatePeriodSummary: the text, with the number it quotes
generatePeriodSummary(anomalies) ==
    IF Len(anomalies) = 0 THEN <<"Anomali tespit edilmedi">>
    ELSE IF Len(SelectSeq(anomalies, IsHigh)) > 0
    THEN <<"yuksek riskli anomali tespit edildi", Len(SelectSeq(anomalies, IsHigh))>>
    ELSE <<"anomali tespit edildi", Len(anomalies)>>

NoDataSummary == <<"Veri bulunamadi">>

\* the record getAnomalyHistory pushes for a period: the try and the catch
HistoryRecord(p, r) ==
    IF r.status = "error"
    THEN [ period |-> p, anomaly_count |-> 0, risk_score |-> 0,
           major_anomalies |-> <<>>, summary |-> NoDataSummary ]
    ELSE [ period |-> p, anomaly_count |-> r.total_anomalies, risk_score |-> r.risk_score,
           major_anomalies |-> SelectSeq(r.anomalies, IsHigh),
           summary |-> generatePeriodSummary(r.anomalies) ]

\* for (let i = 0; i < months; i++): the records pushed from month i on
RECURSIVE HistoryLoop(_, _, _)
HistoryLoop(date, i, m) ==
    IF i >= m THEN <<>>
    ELSE LET p == MonthsFrom(date, -i)
         IN << CHOOSE h \in { HistoryRecord(p, r) : r \in {detectAnomalies(p, historyThreshold)} } :
                   TRUE >>
            \o HistoryLoop(date, i + 1, m)

\* history.filter((h) => h.anomaly_count > 0 || h.summary !== "Veri bulunamadi")
KeptInHistory(h) == h.anomaly_count > 0 \/ h.summary # NoDataSummary

getAnomalyHistory(m, date) ==
    [ status |-> "ok", records |-> SelectSeq(HistoryLoop(date, 0, m), KeptInHistory) ]

\* recent >= previous * 1.1, recent <= previous * 0.9
calculateTrend_Inclusive(values) ==
    IF Len(values) < 2 THEN "insufficient_data"
    ELSE IF values[1] * 10 >= values[2] * 11 THEN "increasing"
    ELSE IF values[1] * 10 <= values[2] * 9 THEN "decreasing"
    ELSE "stable"

\* recent > previous * 1.1, recent < previous * 0.9
calculateTrend(values) ==
    IF Len(values) < 2 THEN "insufficient_data"
    ELSE IF values[1] * 10 > values[2] * 11 THEN "increasing"
    ELSE IF values[1] * 10 < values[2] * 9 THEN "decreasing"
    ELSE "stable"

\* analyzeTrends on the history it fetched; patterns and prediction are not modelled
analyzeTrends(h) ==
    IF Len(h.records) < 2
    THEN [ status |-> "message", risk_trend |-> "", anomaly_count_trend |-> "" ]
    ELSE [ status |-> "ok",
           risk_trend |-> calculateTrend([ i \in DOMAIN h.records |-> h.records[i].risk_score ]),
           anomaly_count_trend |->
               calculateTrend([ i \in DOMAIN h.records |-> h.records[i].anomaly_count ]) ]

GetAnomalyHistory ==
    /\ history = NoHistory
    /\ months > 0
    /\ history' = getAnomalyHistory(months, now)
    /\ UNCHANGED <<storeVars, controllerVars, anomalyVars, whatIfVars, taskVars, meterVars,
                   dbLedger, months, trends>>

\* analyzeTrends, from the return of getAnomalyHistory(userId, 3)
AnalyzeTrends ==
    /\ history # NoHistory
    /\ months = trendMonths
    /\ trends = NoTrends
    /\ trends' = analyzeTrends(history)
    /\ UNCHANGED <<storeVars, controllerVars, anomalyVars, whatIfVars, taskVars, meterVars,
                   dbLedger, months, history>>

MaxMonths == 3

LedgerMonths == 4

LedgerBills ==
    { NoBill, Bill(12000, <<>>), Bill(12000, <<Item("data", "usage", 100, 1)>>),
      Bill(12000, <<Item("premium_sms", "usage", 5100, 1)>>) }

\* getAnomalyHistory: a clock in the middle and at the turn of a year, and the
\* bills, or none, of the latest LedgerMonths months
InitHistory ==
    /\ AnomalyIdle
    /\ ControllerIdle
    /\ TasksIdle
    /\ MeterIdle
    /\ dbBill = NoBill
    /\ dbUser = User(1)
    /\ dbPlans = PlanCatalog
    /\ dbAddons = AddonCatalog
    /\ scenario = EmptyScenario
    /\ scenarios = <<>>
    /\ wpc = "idle"
    /\ wRuns = 0
    /\ now \in {Date(2025, 7, 15), Date(2025, 1, 31)}
    /\ now1 = now
    /\ result1 = NoResult
    /\ result2 = NoResult
    /\ comparison = NoResult
    /\ months \in 1..MaxMonths
    /\ dbLedger \in [ { MonthsFrom(now, -k) : k \in 0..(LedgerMonths - 1) } -> LedgerBills ]
    /\ history = NoHistory
    /\ trends = NoTrends

NextHistory == GetAnomalyHistory \/ AnalyzeTrends

SpecHistory == InitHistory /\ [][NextHistory]_vars

\* a record of a period that had a bill: no anomaly and no risk, or up to two
\* anomalies and a risk from 1 to 10
ScoredRecords ==
    { [ anomaly_count |-> c, risk_score |-> r ] :
        c \in 0..2, r \in 0..10 }

TrendRecord(p, sr) ==
    [ period |-> p, anomaly_count |-> sr.anomaly_count, risk_score |-> sr.risk_score,
      major_anomalies |-> <<>>,
      summary |-> IF sr.anomaly_count = 0 THEN <<"Anomali tespit edilmedi">>
                  ELSE <<"anomali tespit edildi", sr.anomaly_count>> ]

\* analyzeTrends where getAnomalyHistory(userId, 3) has returned
InitTrend ==
    /\ AnomalyIdle
    /\ WhatIfIdle
    /\ ControllerIdle
    /\ TasksIdle
    /\ MeterIdle
    /\ dbBill = NoBill
    /\ months = trendMonths
    /\ dbLedger = <<>>
    /\ \E rs \in SeqsUpTo({ sr \in ScoredRecords : (sr.anomaly_count = 0) <=> (sr.risk_score = 0) },
                          trendMonths) :
          history = [ status |-> "ok",
                      records |-> [ i \in DOMAIN rs |-> TrendRecord(MonthsFrom(now, 1 - i), rs[i]) ] ]
    /\ trends = NoTrends

NextTrend == AnalyzeTrends

SpecTrend == InitTrend /\ [][NextTrend]_vars

(***************************************************************************)
(* Properties of the category rules                                        *)
(***************************************************************************)
CategorySet == { categories[i] : i \in DOMAIN categories }

CategoryDone == apc \notin {"start", "history", "category"} /\ report.status # "error"

NewItemDone == CategoryDone /\ apc # "new_item"

\* the anomalies of a list with the given type and category
Of(anomalies, type, category) ==
    SelectSeq(anomalies, LAMBDA a : a.type = type /\ a.category = category)

HistoricalTotals(category) == MapCategoryTotal(historicalBills, category)

\* the statistics of a category, restated from the totals:
\* |z| > 2 and percentageChange > threshold * 100
StatN == Len(historicalBills)

StatS(c) == SumSeq(HistoricalTotals(c))

StatV(c) == StatN * SumSquares(HistoricalTotals(c)) - StatS(c) * StatS(c)

StatX(c) == StatN * calculateCategoryTotal(currentBill, c) - StatS(c)

ZRuleHolds(c) == StatV(c) > 0 /\ Abs(StatX(c)) > ISqrt(4 * StatV(c))

PercentageRuleHolds(c) == StatS(c) > 0 /\ 100 * StatX(c) > threshold * 10 * StatS(c)

\* C1: in one run, no category has both a 'statistical' and a
\* 'percentage_increase' anomaly.
C1_RulesMutuallyExclusive ==
    CategoryDone =>
        \A c \in CategorySet :
            ~ ( Len(Of(allAnomalies, "statistical", c)) > 0
                /\ Len(Of(allAnomalies, "percentage_increase", c)) > 0 )

\* a category for which both conditions hold got the statistical anomaly only
C1_Witness ==
    /\ CategoryDone
    /\ \E c \in CategorySet :
          /\ StatN > 0 /\ ZRuleHolds(c) /\ PercentageRuleHolds(c)
          /\ Len(Of(categoryAnomalies, "statistical", c)) = 1

\* C2: a category with zero historical data points (no historical bill, or a
\* zero total in every historical bill) gets neither a 'statistical' nor a
\* 'percentage_increase' anomaly, whatever the current amount and threshold.
NoHistoricalData(c) ==
    \A i \in DOMAIN historicalBills : calculateCategoryTotal(historicalBills[i], c) = 0

C2_NoHistoryNoCategoryAnomaly ==
    CategoryDone =>
        \A c \in CategorySet :
            NoHistoricalData(c) =>
                /\ Len(Of(allAnomalies, "statistical", c)) = 0
                /\ Len(Of(allAnomalies, "percentage_increase", c)) = 0

\* historical bills exist, all with a zero total for a category the current
\* bill charges, at the lowest threshold; only the new-item rule flagged it
C2_Witness ==
    /\ NewItemDone
    /\ threshold = 0
    /\ Len(historicalBills) > 0
    /\ \E c \in CategorySet :
          /\ NoHistoricalData(c)
          /\ calculateCategoryTotal(currentBill, c) > 0
          /\ Len(Of(allAnomalies, "new_item", c)) = 1

C5_MediumReached ==
    \E i \in DOMAIN categoryAnomalies :
        categoryAnomalies[i].type = "statistical" /\ categoryAnomalies[i].severity = "medium"

(***************************************************************************)
(* Properties of the risk score, the new-item rule and the roaming rules   *)
(***************************************************************************)
RiskBonus(total) == (IF total > 50000 THEN 1 ELSE 0) + (IF total > 100000 THEN 2 ELSE 0)

\* C3: calculateRiskScore of an empty list is 0 whatever the bill total, and the
\* risk score of every report of detectAnomalies lies in 0..10.
C3_RiskScoreBounded ==
    /\ \A total \in {0, 12000, 50001, 100001} : calculateRiskScore(<<>>, total) = 0
    /\ report.status = "ok" =>
          /\ report.risk_score \in 0..10
          /\ report.anomalies = <<>> => report.risk_score = 0

\* a report whose points add up to more than 10, on a bill above 1000 TL
C3_Witness ==
    /\ report.status = "ok"
    /\ SumPoints(report.anomalies) + RiskBonus(currentBill.total_amount) > 10
    /\ currentBill.total_amount > 100000
    /\ report.risk_score = 10

\* reachable too: a report without anomalies on a bill above 1000 TL
C3_EmptyReached ==
    report.status = "ok" /\ report.anomalies = <<>> /\ currentBill.total_amount > 100000

NewItemSet == { newItemCategories[i] : i \in DOMAIN newItemCategories }

NeverCharged(c) ==
    \A i \in DOMAIN historicalBills :
        SumSeq(MapAmounts(SelectSeq(historicalBills[i].items,
                                    LAMBDA it : it.category = c))) = 0

CurrentTotal(c) ==
    SumSeq(MapAmounts(SelectSeq(currentBill.items, LAMBDA it : it.category = c)))

\* C6: for each of data, voice, sms, premium_sms, vas, roaming a 'new_item'
\* anomaly is emitted exactly when the current total is nonzero and no
\* historical bill has a nonzero total; it has historical_average 0,
\* first_occurrence true and severity high above 50 TL, else medium.  With a
\* zero premium_sms total now and in every historical bill, the report holds
\* no anomaly of any type for premium_sms.
C6_NewItemRule ==
    /\ NewItemDone =>
          /\ \A c \in NewItemSet :
                Len(Of(newItemAnomalies, "new_item", c))
                   = IF CurrentTotal(c) # 0 /\ NeverCharged(c) THEN 1 ELSE 0
          /\ \A i \in DOMAIN newItemAnomalies :
                LET a == newItemAnomalies[i]
                IN /\ a.type = "new_item"
                   /\ a.category \in NewItemSet
                   /\ a.current_amount = CurrentTotal(a.category)
                   /\ a.historical_average.num = 0
                   /\ a.first_occurrence = TRUE
                   /\ a.severity = IF a.current_amount > 5000 THEN "high" ELSE "medium"
    /\ ( report.status = "ok" /\ CurrentTotal("premium_sms") = 0
         /\ NeverCharged("premium_sms") )
       => \A i \in DOMAIN report.anomalies : report.anomalies[i].category # "premium_sms"

\* a report on a bill without premium_sms, after historical bills without it,
\* that flags other things, a new item among them
C6_Witness ==
    /\ report.status = "ok"
    /\ CurrentTotal("premium_sms") = 0
    /\ Len(historicalBills) > 0
    /\ NeverCharged("premium_sms")
    /\ Len(Of(report.anomalies, "new_item", "data")) = 1
    /\ Len(report.anomalies) > 1

\* reachable too: a new premium_sms item of severity high, and one of severity medium
C6_HighReached ==
    \E i \in DOMAIN newItemAnomalies :
        newItemAnomalies[i].category = "premium_sms" /\ newItemAnomalies[i].severity = "high"

C6_MediumReached ==
    \E i \in DOMAIN newItemAnomalies :
        newItemAnomalies[i].category = "premium_sms" /\ newItemAnomalies[i].severity = "medium"

RoamingDone == NewItemDone /\ apc \notin {"roaming_current", "roaming_previous"}

\* the period before p, by month count
Preceding(p) ==
    LET i == p.year * 12 + (p.month - 1) - 1
    IN [year |-> i \div 12, month |-> (i % 12) + 1]

RECURSIVE StoredRoamingFrom(_, _)
StoredRoamingFrom(days, i) ==
    IF i > Len(days) THEN 0 ELSE days[i].roaming_mb + StoredRoamingFrom(days, i + 1)

\* the roaming_mb the store holds for a period, summed
StoredRoaming(p) == IF p \in DOMAIN dbUsage THEN StoredRoamingFrom(dbUsage[p], 1) ELSE 0

\* C7: 'roaming_new' (high, first_occurrence) is emitted exactly when the summed
\* roaming_mb of the target period is > 0 and that of the period before is 0;
\* 'roaming_excessive' (high) exactly when the target period's sum is > 1000,
\* independently; both are present for 1500 MB now and 0 before.  The sums are
\* the ones the two usage reads return; a read that succeeds returns the
\* store's sum.
C7_RoamingRules ==
    RoamingDone =>
        /\ Len(Of(roamingAnomalies, "roaming_new", "roaming"))
              = IF currentUsage.roaming_mb > 0 /\ previousUsage.roaming_mb = 0
                THEN 1 ELSE 0
        /\ Len(Of(roamingAnomalies, "roaming_excessive", "roaming"))
              = IF currentUsage.roaming_mb > 1000 THEN 1 ELSE 0
        /\ \A i \in DOMAIN roamingAnomalies :
              LET a == roamingAnomalies[i]
              IN /\ a.type \in {"roaming_new", "roaming_excessive"}
                 /\ a.category = "roaming"
                 /\ a.severity = "high"
                 /\ a.first_occurrence = (a.type = "roaming_new")
        /\ "roaming_current" \notin dbFailing
              => currentUsage.roaming_mb = StoredRoaming(period)
        /\ "roaming_previous" \notin dbFailing
              => previousUsage.roaming_mb = StoredRoaming(Preceding(period))
        /\ ( dbFailing = {} /\ StoredRoaming(period) = 1500
             /\ StoredRoaming(Preceding(period)) = 0 )
           => Len(roamingAnomalies) = 2

\* 1500 MB of roaming this period, none in the period before: both anomalies
C7_Witness ==
    /\ RoamingDone
    /\ dbFailing = {}
    /\ StoredRoaming(period) = 1500
    /\ StoredRoaming(Preceding(period)) = 0
    /\ Len(Of(roamingAnomalies, "roaming_new", "roaming")) = 1
    /\ Len(Of(roamingAnomalies, "roaming_excessive", "roaming")) = 1

(***************************************************************************)
(* Properties of the what-if engine                                        *)
(***************************************************************************)
FirstDone == wpc \in {"once", "twice"} /\ result1.status = "ok"

\* t tenths is value * 1000 / total rounded to the nearest tenth, a tie going
\* away from zero (total > 0)
IsNearestTenth(t, value, total) ==
    /\ 2 * Abs(t * total - 1000 * value) <= total
    /\ 2 * Abs(t * total - 1000 * value) = total => Abs(t) * total > 1000 * Abs(value)

\* C8 (as stated): every result of calculateWhatIf has saving equal to
\* current_total - new_total to 2 decimals and saving_percent equal to
\* (current_total - new_total) / current_total * 100 to 1 decimal, a number,
\* also when the bill's total_amount is 0.
C8_SavingPercentOfEveryBill ==
    FirstDone =>
        /\ result1.current_total = dbBill.total_amount
        /\ result1.saving = result1.current_total - result1.new_total
        /\ result1.saving_percent.kind = "finite"
        /\ result1.current_total # 0 =>
               IsNearestTenth(result1.saving_percent.tenths,
                              result1.current_total - result1.new_total,
                              result1.current_total)

\* C8: with a total_amount of 0 the division leaves no number
C8_ZeroTotalReached ==
    /\ FirstDone
    /\ dbBill.total_amount = 0
    /\ result1.saving_percent.kind # "finite"

\* C8: with a total_amount above 0 the result is as the claim says
C8_SavingPercentOfPositiveBill ==
    (FirstDone /\ dbBill.total_amount > 0) =>
        /\ result1.current_total = dbBill.total_amount
        /\ result1.saving = result1.current_total - result1.new_total
        /\ result1.saving_percent.kind = "finite"
        /\ IsNearestTenth(result1.saving_percent.tenths,
                          result1.current_total - result1.new_total,
                          result1.current_total)

WithoutEffectiveDate(r) == [f \in DOMAIN r \ {"effective_date"} |-> r[f]]

C9_SameClockReached ==
    /\ wpc = "twice"
    /\ result1.status = "ok"
    /\ now1 = now
    /\ analyzeBill(dbBill).usage.total_gb > 0

Compared == wpc = "compared" /\ comparison.status = "ok"

ValidPositions == { i \in 1..Len(comparison.scenarios) : comparison.scenarios[i].error = "" }

\* C10: the ranks of the scenarios without error are exactly 1..k, each once,
\* and a smaller rank never goes with a smaller saving.
C10_DenseRanks ==
    Compared =>
        LET entry == comparison.scenarios
            k == Cardinality(ValidPositions)
        IN /\ { entry[i].rank : i \in ValidPositions } = 1..k
           /\ \A i, j \in ValidPositions : i # j => entry[i].rank # entry[j].rank
           /\ \A i, j \in ValidPositions :
                  entry[i].rank < entry[j].rank => entry[i].saving >= entry[j].saving

\* C10: a scenario in error between two ranked ones, the later one ranked first
\* with the larger saving
C10_Witness ==
    /\ Compared
    /\ \E i, j \in ValidPositions :
          /\ i < j
          /\ comparison.scenarios[i].rank = 2
          /\ comparison.scenarios[j].rank = 1
          /\ comparison.scenarios[j].saving > comparison.scenarios[i].saving
    /\ \E i \in 1..Len(comparison.scenarios) : comparison.scenarios[i].error # ""

\* C10: two scenarios with the same saving, ranked in input order
C10_TieReached ==
    /\ Compared
    /\ \E i, j \in ValidPositions :
          /\ i < j
          /\ comparison.scenarios[i].saving = comparison.scenarios[j].saving
          /\ comparison.scenarios[i].rank + 1 = comparison.scenarios[j].rank

\* C11 (as stated): in the returned scenarios list, of two scenarios without
\* error the earlier one never has the smaller saving.
C11_ReturnedSortedBySaving ==
    Compared =>
        \A i, j \in ValidPositions :
            i < j => comparison.scenarios[i].saving >= comparison.scenarios[j].saving

\* C11: the returned list is in the order of submission, the sorted order
\* being kept in the ranks only
C11_ReturnedInInputOrder ==
    Compared =>
        /\ Len(comparison.scenarios) = Len(scenarios)
        /\ \A i \in 1..Len(scenarios) : comparison.scenarios[i].id = i

\* C11: two scenarios returned with the smaller saving first
C11_UnsortedReached ==
    /\ Compared
    /\ \E i, j \in ValidPositions :
          i < j /\ comparison.scenarios[i].saving < comparison.scenarios[j].saving

WithoutId(r) == [f \in DOMAIN r \ {"id"} |-> r[f]]

Throws(sc) == calculateWhatIf(sc, now).status = "error"

\* the positions of the returned list without error, in order
ValidPositionSeq ==
    SelectSeq([i \in 1..Len(comparison.scenarios) |-> i],
              LAMBDA i : comparison.scenarios[i].error = "")

\* C12: a scenario whose calculateWhatIf throws is returned with rank 999 and
\* the error message while compareScenarios returns, and the other scenarios
\* are computed and ranked as in a comparison of the list without the
\* throwing ones.
C12_FailingScenarioIsolated ==
    (wpc = "compared" /\ dbBill # NoBill) =>
        /\ comparison.status = "ok"
        /\ Len(comparison.scenarios) = Len(scenarios)
        /\ \A i \in 1..Len(scenarios) :
              Throws(scenarios[i]) =>
                  /\ comparison.scenarios[i].rank = 999
                  /\ comparison.scenarios[i].error = calculateWhatIf(scenarios[i], now).error
                  /\ comparison.scenarios[i].error # ""
        /\ LET others == SelectSeq(scenarios, LAMBDA sc : ~Throws(sc))
               alone == compareScenarios(others, now)
           IN /\ Len(ValidPositionSeq) = Len(others)
              /\ \A k \in 1..Len(others) :
                    WithoutId(comparison.scenarios[ValidPositionSeq[k]])
                        = WithoutId(alone.scenarios[k])

\* C12: a throwing scenario submitted first, two others behind it ranked 1
\* and 2
C12_Witness ==
    /\ Compared
    /\ Len(scenarios) = 3
    /\ Throws(scenarios[1])
    /\ comparison.scenarios[1].rank = 999
    /\ {comparison.scenarios[2].rank, comparison.scenarios[3].rank} = {1, 2}
    /\ comparison.scenarios[2].saving # comparison.scenarios[3].saving

NoOverage(bill) ==
    /\ analyzeBill(bill).usage.total_gb = 0
    /\ analyzeBill(bill).usage.total_minutes = 0
    /\ analyzeBill(bill).usage.total_sms = 0

\* vas + premium_sms + roaming + one_off - discount of the bill
CarriedTotal(bill) ==
    calculateCategoryTotal(bill, "vas") + calculateCategoryTotal(bill, "premium_sms")
    + calculateCategoryTotal(bill, "roaming") + calculateCategoryTotal(bill, "one_off")
    - calculateCategoryTotal(bill, "discount")

\* n is value / den rounded to the nearest integer, a tie going away from zero
IsNearest(n, value, den) ==
    /\ 2 * Abs(n * den - value) <= den
    /\ 2 * Abs(n * den - value) = den => Abs(n) * den > Abs(value)

\* a request that only names an active plan other than the current one
PlanOnly ==
    /\ scenario.fields = {"plan_id"}
    /\ scenario.plan_id # dbUser.current_plan_id
    /\ findByPlanId(scenario.plan_id) # NoPlan

\* C13 (as stated): a plan-only scenario on a bill without overage gives
\* new_total = the new plan's monthly_price * 1.2 (to 2 decimals) and
\* saving = current_total - new_total.
C13_PlanPriceOnly ==
    (FirstDone /\ PlanOnly /\ NoOverage(dbBill)) =>
        /\ IsNearest(result1.new_total, findByPlanId(scenario.plan_id).monthly_price * 120, 100)
        /\ result1.saving = result1.current_total - result1.new_total

\* C13 (amended): new_total is 1.2 * (the new plan's monthly_price + vas +
\* premium_sms + roaming + one_off - discount of the bill) to 2 decimals,
\* which is the plan's price * 1.2 when the bill has none of these.
C13_PlanPriceAndCarried ==
    (FirstDone /\ PlanOnly /\ NoOverage(dbBill)) =>
        /\ IsNearest(result1.new_total,
                     (findByPlanId(scenario.plan_id).monthly_price + CarriedTotal(dbBill)) * 120,
                     100)
        /\ result1.saving = result1.current_total - result1.new_total
        /\ (\A i \in 1..Len(dbBill.items) :
               dbBill.items[i].category
                   \notin {"vas", "premium_sms", "roaming", "one_off", "discount"})
           => IsNearest(result1.new_total,
                        findByPlanId(scenario.plan_id).monthly_price * 120, 100)

\* C13: the cheaper plan asked for on a bill with a VAS item and no overage
C13_Witness ==
    /\ FirstDone
    /\ PlanOnly
    /\ NoOverage(dbBill)
    /\ findByPlanId(scenario.plan_id).monthly_price
           < findByPlanId(dbUser.current_plan_id).monthly_price
    /\ calculateCategoryTotal(dbBill, "vas") > 0
    /\ result1.saving > 0

\* C13: the cheaper plan asked for on a bill without items
C13_PlainBillReached ==
    /\ FirstDone
    /\ PlanOnly
    /\ dbBill.items = <<>>
    /\ dbBill.total_amount > 0
    /\ result1.new_total = 9599

Resolvable ==
    /\ dbBill # NoBill
    /\ dbUser # NoUser
    /\ findByPlanId(dbUser.current_plan_id) # NoPlan

\* the overage quantities of the bill at the rates of the plan
OverageAtRates(bill, plan) ==
    OverageQuantity(bill, "data", "data_overage") * plan.overage_gb
    + OverageQuantity(bill, "voice", "voice_overage") * plan.overage_min
    + OverageQuantity(bill, "sms", "sms_overage") * plan.overage_sms

\* C14: calculateWhatIf with the scenario {} does not fail and returns
\* new_total = 1.2 * (current plan price + the bill's overage quantities at
\* the current plan's rates + vas + premium_sms + roaming + one_off -
\* discount), to 2 decimals.
C14_EmptyScenarioCarriesAll ==
    (wpc \in {"once", "twice"} /\ scenario.fields = {} /\ Resolvable) =>
        /\ result1.status = "ok"
        /\ LET plan == findByPlanId(dbUser.current_plan_id)
           IN IsNearest(result1.new_total,
                        (plan.monthly_price + OverageAtRates(dbBill, plan)
                         + CarriedTotal(dbBill)) * 120,
                        100)

\* C14: the scenario {} on a bill with a data overage of 3 GB and one more item
C14_Witness ==
    /\ FirstDone
    /\ scenario.fields = {}
    /\ OverageQuantity(dbBill, "data", "data_overage") = 3
    /\ Len(dbBill.items) = 2
    /\ result1.new_total > 12000

\* C14: the scenario {} on a bill with an SMS overage
C14_SmsOverageReached ==
    /\ FirstDone
    /\ scenario.fields = {}
    /\ OverageQuantity(dbBill, "sms", "sms_overage") > 0

IsActivePlan(id) == id \in DOMAIN dbPlans /\ dbPlans[id].is_active

\* the error calculateWhatIf is to fail with, "" when it is to return
ExpectedError(sc) ==
    IF dbBill = NoBill THEN "Mevcut donem faturasi bulunamadi"
    ELSE IF dbUser = NoUser THEN "Kullanici bulunamadi"
    ELSE IF ~IsActivePlan(dbUser.current_plan_id) THEN "Mevcut plan bulunamadi"
    ELSE IF "plan_id" \in sc.fields /\ ~IsActivePlan(sc.plan_id) THEN "Yeni plan bulunamadi"
    ELSE ""

\* C15: calculateWhatIf returns a result exactly when the bill, the user, the
\* user's current plan and a plan the scenario names are found (plans: active);
\* otherwise it fails with the error of the first of these checks that fails,
\* in this order, and returns nothing.
C15_ErrorsInOrder ==
    wpc \in {"once", "twice"} =>
        IF ExpectedError(scenario) = ""
        THEN result1.status = "ok"
        ELSE /\ result1.status = "error"
             /\ result1.error = ExpectedError(scenario)
             /\ DOMAIN result1 = {"status", "error"}

\* C15: neither the bill nor the user is found: the bill is reported
C15_Witness ==
    /\ wpc \in {"once", "twice"}
    /\ dbBill = NoBill
    /\ dbUser = NoUser
    /\ result1.error = "Mevcut donem faturasi bulunamadi"

\* C15: the user's plan and the plan asked for are both inactive: the user's
\* plan is reported
C15_CurrentPlanFirstReached ==
    /\ wpc \in {"once", "twice"}
    /\ dbBill # NoBill
    /\ dbUser = User(3)
    /\ scenario.plan_id = 3
    /\ result1.error = "Mevcut plan bulunamadi"

\* C15: the plan asked for is inactive or unknown, all else found
C15_NewPlanReached ==
    /\ wpc \in {"once", "twice"}
    /\ dbUser = User(1)
    /\ scenario.plan_id \in {3, 9}
    /\ result1.error = "Yeni plan bulunamadi"

(***************************************************************************)
(* Properties of the period validation                                     *)
(***************************************************************************)
MonthIndex(y, m) == y * 12 + (m - 1)

\* how many months the period lies before the month of the clock
MonthsBack == MonthIndex(now.year, now.month) - MonthIndex(period.year, period.month)

\* C16 (as stated): a well-formed period is accepted exactly when its month is
\* not in the future and not more than 24 months before the current month,
\* on every day of the month.
C16_AcceptsLast24Months ==
    periodValid # "none" =>
        (periodValid = "true" <=> (MonthsBack >= 0 /\ MonthsBack <= 24))

\* C16: the month 24 months back is rejected on the 15th
C16_RejectedReached ==
    /\ periodValid = "false"
    /\ MonthsBack = 24
    /\ now.day = 15

\* C16: what the code accepts: the months 0 to 23 back, the month 24 back
\* only at midnight of the 1st, and on a 29th of February after midnight
\* not the month 23 back either
C16_AcceptsAfterSameDayTwoYearsAgo ==
    periodValid # "none" =>
        (periodValid = "true" <=>
            \/ MonthsBack >= 0 /\ MonthsBack <= 22
            \/ MonthsBack = 23 /\ ~(now.month = 2 /\ now.day = 29 /\ timeOfDay > 0)
            \/ MonthsBack = 24 /\ now.day = 1 /\ timeOfDay = 0)

(***************************************************************************)
(* More properties of the risk score                                       *)
(***************************************************************************)
\* how many anomalies of the report satisfy P
CountAnomalies(P(_)) ==
    Cardinality({ i \in 1..Len(report.anomalies) : P(report.anomalies[i]) })

\* C17: for a non-empty anomaly list the risk score is min(10, S + B), S being
\* 3, 2 or 1 per anomaly of severity high, medium or low, plus 1 per
\* first_occurrence, plus 1 per anomaly of category premium_sms or roaming, and
\* B being 1 for a bill total above 500 plus 2 for one above 1000.
C17_RiskScoreFormula ==
    (report.status = "ok" /\ report.anomalies # <<>>) =>
        LET S == 3 * CountAnomalies(LAMBDA a : a.severity = "high")
                 + 2 * CountAnomalies(LAMBDA a : a.severity = "medium")
                 + CountAnomalies(LAMBDA a : a.severity = "low")
                 + CountAnomalies(LAMBDA a : a.first_occurrence)
                 + CountAnomalies(LAMBDA a : a.category \in {"premium_sms", "roaming"})
            B == (IF currentBill.total_amount > 50000 THEN 1 ELSE 0)
                 + (IF currentBill.total_amount > 100000 THEN 2 ELSE 0)
        IN report.risk_score = Min(10, S + B)

\* C17: a report below 10 on a bill between 500 and 1000 with a low anomaly, a
\* first occurrence and a premium_sms or roaming anomaly
C17_Witness ==
    /\ report.status = "ok"
    /\ report.risk_score < 10
    /\ currentBill.total_amount = 50001
    /\ CountAnomalies(LAMBDA a : a.severity = "low") > 0
    /\ CountAnomalies(LAMBDA a : a.first_occurrence) > 0
    /\ CountAnomalies(LAMBDA a : a.category \in {"premium_sms", "roaming"}) > 0

\* C17: a bill of exactly 1000 with anomalies gets the bonus 1, not 3
C17_BoundaryReached ==
    /\ report.status = "ok"
    /\ report.anomalies # <<>>
    /\ currentBill.total_amount = 100000
    /\ report.risk_score = SumPoints(report.anomalies) + 1
    /\ report.risk_score < 10

(***************************************************************************)
(* Properties of the overage recomputation and the breakdown               *)
(***************************************************************************)
CurrentPlan == findByPlanId(dbUser.current_plan_id)

\* the plan the scenario results in
EffectivePlan(sc) ==
    IF HasPlanId(sc) /\ sc.plan_id # CurrentPlan.plan_id THEN findByPlanId(sc.plan_id)
    ELSE CurrentPlan

\* the extras of the add-ons the scenario takes
AddonExtras(sc) ==
    IF HasAddons(sc) THEN AddonLoop(sc.addons, EffectivePlan(sc).plan_id, NoAddons)
    ELSE NoAddons

\* C18 (as stated): when the bill has a data (voice) overage quantity q > 0 and
\* the effective quota of the scenario exceeds the current plan's quota by at
\* least q, no data (voice) overage is charged.
C18_LargerQuotaAbsorbsOverage ==
    FirstDone =>
        LET usage == analyzeBill(dbBill).usage
            plan == EffectivePlan(scenario)
            extras == AddonExtras(scenario)
        IN /\ (/\ usage.total_gb > 0
               /\ plan.quota_gb + extras.gb >= CurrentPlan.quota_gb + usage.total_gb)
              => "data_overage" \notin DOMAIN result1.breakdown
           /\ (/\ usage.total_minutes > 0
               /\ plan.quota_min + extras.min >= CurrentPlan.quota_min + usage.total_minutes)
              => "voice_overage" \notin DOMAIN result1.breakdown

\* C18: plan 2 with 10 GB more than plan 1 on a bill with 3 GB of data
\* overage: the 3 GB are charged again, at plan 2's rate
C18_OverageChargedReached ==
    /\ FirstDone
    /\ scenario.fields = {"plan_id"}
    /\ scenario.plan_id = 2
    /\ analyzeBill(dbBill).usage.total_gb = 3
    /\ "data_overage" \in DOMAIN result1.breakdown
    /\ result1.breakdown["data_overage"] = Rat(3 * dbPlans[2].overage_gb)

BreakdownKeys ==
    << "plan", "addons", "data_overage", "voice_overage", "vas", "premium_sms", "roaming",
       "one_off", "discount", "taxes" >>

\* the sum of the entries of a breakdown, in hundredths of a kurus
RECURSIVE BreakdownSum(_, _)
BreakdownSum(breakdown, keys) ==
    IF keys = <<>> THEN 0
    ELSE (IF Head(keys) \in DOMAIN breakdown
          THEN breakdown[Head(keys)].num * (100 \div breakdown[Head(keys)].den)
          ELSE 0)
         + BreakdownSum(breakdown, Tail(keys))

\* new_total before toFixed(2), in hundredths of a kurus
UnroundedTotal ==
    calculateScenario(dbBill, CurrentPlan, dbUser, scenario, analyzeBill(dbBill))
        .unrounded_total.num

\* C19 (as stated): for every bill and scenario the entries of breakdown add up
\* to new_total before its rounding, also when the bill has SMS overage.
C19_BreakdownAddsUp ==
    FirstDone =>
        /\ DOMAIN result1.breakdown \subseteq { BreakdownKeys[i] : i \in DOMAIN BreakdownKeys }
        /\ BreakdownSum(result1.breakdown, BreakdownKeys) = UnroundedTotal

\* C19: on a bill with SMS overage the entries fall short by the SMS overage
\* cost (its tax is in the taxes entry)
C19_SmsOverageMissingReached ==
    /\ FirstDone
    /\ analyzeBill(dbBill).usage.total_sms > 0
    /\ UnroundedTotal - BreakdownSum(result1.breakdown, BreakdownKeys)
           = 100 * analyzeBill(dbBill).usage.total_sms * EffectivePlan(scenario).overage_sms

\* C19: without SMS overage the entries add up
C19_BreakdownAddsUpWithoutSms ==
    (FirstDone /\ analyzeBill(dbBill).usage.total_sms = 0) =>
        BreakdownSum(result1.breakdown, BreakdownKeys) = UnroundedTotal

(***************************************************************************)
(* Properties of the toggles                                               *)
(***************************************************************************)
Toggles == {"disable_vas", "block_premium_sms", "enable_roaming_block"}

\* the scenario has the toggle, true
ToggleOn(sc, toggle) == toggle \in sc.fields /\ sc[toggle] = TRUE

ToggledCategory(toggle) ==
    CASE toggle = "disable_vas" -> "vas"
      [] toggle = "block_premium_sms" -> "premium_sms"
      [] toggle = "enable_roaming_block" -> "roaming"

\* the scenario with the toggle absent, and with the toggle false
ToggleAbsent(sc, toggle) == [sc EXCEPT !.fields = @ \ {toggle}, ![toggle] = FALSE]

ToggleFalse(sc, toggle) == [sc EXCEPT !.fields = @ \cup {toggle}, ![toggle] = FALSE]

ScenarioResult(sc) == calculateScenario(dbBill, CurrentPlan, dbUser, sc, analyzeBill(dbBill))

\* C20: with a toggle true the bill's total of its category is not added and
\* breakdown has no entry for it; with the toggle false or absent, all else
\* equal, the total is carried as a cost.  The totals before tax differ by
\* that category total, and the toggle never raises new_total.
C20_ToggleRemovesCategory ==
    FirstDone =>
        \A toggle \in Toggles :
            ToggleOn(scenario, toggle) =>
                LET category == ToggledCategory(toggle)
                    amount == calculateCategoryTotal(dbBill, category)
                    on == ScenarioResult(scenario)
                IN /\ result1.new_total = on.new_total
                   /\ category \notin DOMAIN result1.breakdown
                   /\ \A off \in { ScenarioResult(ToggleAbsent(scenario, toggle)),
                                   ScenarioResult(ToggleFalse(scenario, toggle)) } :
                         /\ category \in DOMAIN off.breakdown
                         /\ off.breakdown[category] = Rat(amount)
                         /\ off.unrounded_total.num
                                = on.unrounded_total.num + amount * (100 + taxRate)
                         /\ on.new_total <= off.new_total

\* C20: VAS disabled on a bill with a VAS item, the new total lower than
\* without the toggle
C20_Witness ==
    /\ FirstDone
    /\ ToggleOn(scenario, "disable_vas")
    /\ calculateCategoryTotal(dbBill, "vas") > 0
    /\ result1.new_total < ScenarioResult(ToggleAbsent(scenario, "disable_vas")).new_total

\* C20: roaming blocked on a bill with a roaming item
C20_RoamingReached ==
    /\ FirstDone
    /\ ToggleOn(scenario, "enable_roaming_block")
    /\ calculateCategoryTotal(dbBill, "roaming") > 0
    /\ "roaming" \notin DOMAIN result1.breakdown

\* C20: premium SMS blocked on a bill with a premium SMS item
C20_PremiumReached ==
    /\ FirstDone
    /\ ToggleOn(scenario, "block_premium_sms")
    /\ calculateCategoryTotal(dbBill, "premium_sms") > 0
    /\ "premium_sms" \notin DOMAIN result1.breakdown

(***************************************************************************)
(* Properties of the add-on step                                           *)
(***************************************************************************)
IsActiveAddon(id) == id \in DOMAIN dbAddons /\ dbAddons[id].is_active

\* the sum of a field over the add-ons of the ids
RECURSIVE SumAddons(_, _)
SumAddons(ids, field) ==
    IF ids = <<>> THEN 0 ELSE dbAddons[Head(ids)][field] + SumAddons(Tail(ids), field)

WithoutAddons(sc) == [sc EXCEPT !.fields = @ \ {"addons"}, !.addons = <<>>]

\* C21: an id of scenario.addons that resolves to no active add-on is skipped,
\* the call not failing, and adds nothing to the price and the effective
\* quotas; an add-on whose compatible_plans lacks the effective plan adds its
\* price and extras all the same and leaves a note in risk_factors.
C21_AddonsResolvedOrSkipped ==
    (wpc \in {"once", "twice"} /\ ExpectedError(scenario) = "" /\ "addons" \in scenario.fields) =>
        LET resolved == SelectSeq(scenario.addons, IsActiveAddon)
            plan == EffectivePlan(scenario)
            r == ScenarioResult(scenario)
            bare == ScenarioResult(WithoutAddons(scenario))
        IN /\ result1.status = "ok"
           /\ Len(scenario.addons) > 0 =>
                  result1.breakdown["addons"] = Rat(SumAddons(resolved, "price"))
           /\ r.unrounded_total.num
                  = bare.unrounded_total.num + SumAddons(resolved, "price") * (100 + taxRate)
           /\ result1.new_total = r.new_total
           /\ r.usage_analysis.effective_quotas
                  = [ gb |-> plan.quota_gb + SumAddons(resolved, "extra_gb"),
                      minutes |-> plan.quota_min + SumAddons(resolved, "extra_min"),
                      sms |-> plan.quota_sms + SumAddons(resolved, "extra_sms") ]
           /\ result1.risk_factors
                  = SelectSeq(resolved,
                              LAMBDA id : plan.plan_id \notin dbAddons[id].compatible_plans)

\* C21: the add-ons 2 (not compatible with plan 1) and 3 (inactive) taken on
\* plan 1: the price of add-on 2 alone, and a note for it
C21_Witness ==
    /\ FirstDone
    /\ scenario.addons = <<2, 3>>
    /\ EffectivePlan(scenario).plan_id = 1
    /\ result1.breakdown["addons"] = Rat(1000)
    /\ result1.risk_factors = <<2>>

\* C21: an unknown id before a compatible add-on
C21_UnknownIdReached ==
    /\ FirstDone
    /\ scenario.addons = <<9, 1>>
    /\ result1.breakdown["addons"] = Rat(2505)
    /\ result1.risk_factors = <<>>

(***************************************************************************)
(* Properties of the percentage rule                                       *)
(***************************************************************************)
\* the severity of a percentage change x / s * 100, s > 0
PercentageSeverity(x, s) ==
    IF 100 * x >= 200 * s THEN "high"
    ELSE IF 100 * x >= 100 * s THEN "medium"
    ELSE "low"

PercentageAnomalies ==
    SelectSeq(categoryAnomalies, LAMBDA a : a.type = "percentage_increase")

C22_LowAtZeroThreshold ==
    /\ CategoryDone
    /\ threshold = 0
    /\ \E i \in DOMAIN PercentageAnomalies : PercentageAnomalies[i].severity = "low"

C22_HighReached ==
    /\ CategoryDone
    /\ \E i \in DOMAIN PercentageAnomalies : PercentageAnomalies[i].severity = "high"

(***************************************************************************)
(* Properties of the usage spike                                           *)
(***************************************************************************)
UsageDone == apc \in {"risk", "done"} /\ report.status # "error"

\* the stored days of the target period
StoredDays == IF period \in DOMAIN dbUsage THEN dbUsage[period] ELSE <<>>

StoredMb == SumSeq([ i \in DOMAIN StoredDays |-> StoredDays[i].mb_used ])

\* the days above three times the average of the period
SpikeDays ==
    { i \in DOMAIN StoredDays :
        DGt(MbUsed(StoredDays[i]), DMulInt(DDivInt(SumMb(StoredDays), Len(StoredDays)), 3)) }

UsageSpikes == SelectSeq(usageAnomalies, LAMBDA a : a.type = "usage_spike")

C23_NoSpikeReached ==
    /\ UsageDone
    /\ "daily" \notin dbFailing
    /\ StoredMb > 0
    /\ UsageSpikes = <<>>

(***************************************************************************)
(* Properties of the anomaly history                                       *)
(***************************************************************************)
HistoryDone == history # NoHistory

\* the trailing periods of the request, the latest first
TrailingPeriods == [ i \in 1..months |-> MonthsFrom(now, 1 - i) ]

RecordsOf(p) == SelectSeq(history.records, LAMBDA h : h.period = p)

\* C24: getAnomalyHistory does not fail for a period without a findable
\* bill; the history of a request for 1 to 24 months has a record for each of
\* the trailing periods, in their order, and the record of a period without a
\* bill has anomaly_count 0, risk_score 0 and no major anomalies.
C24_RecordForEachPeriod ==
    HistoryDone =>
        /\ history.status = "ok"
        /\ Len(history.records) = months
        /\ \A i \in 1..months :
              /\ history.records[i].period = TrailingPeriods[i]
              /\ LedgerBill(TrailingPeriods[i]) = NoBill =>
                    /\ history.records[i].anomaly_count = 0
                    /\ history.records[i].risk_score = 0
                    /\ history.records[i].major_anomalies = <<>>

\* what the history does hold: it never fails, and its records are those of
\* the trailing periods that have a bill, in their order
C24_RecordsOfBilledPeriods ==
    HistoryDone =>
        /\ history.status = "ok"
        /\ [ i \in DOMAIN history.records |-> history.records[i].period ]
               = SelectSeq(TrailingPeriods, LAMBDA p : LedgerBill(p) # NoBill)

\* a request whose latest period has no bill and an earlier one has
C24_MissingPeriodReached ==
    /\ HistoryDone
    /\ months >= 2
    /\ LedgerBill(TrailingPeriods[1]) = NoBill
    /\ LedgerBill(TrailingPeriods[2]) # NoBill
    /\ Len(history.records) < months

(***************************************************************************)
(* Properties of the trend                                                 *)
(***************************************************************************)
TrendDone == trends # NoTrends /\ trends.status = "ok"

LatestRisk == history.records[1].risk_score

PreviousRisk == history.records[2].risk_score

\* C25: the risk trend of the two most recent risk scores, each from 0 to 10,
\* is 'increasing' if the latest is at least 1.1 times the previous,
\* 'decreasing' if it is at most 0.9 times the previous, 'stable' otherwise,
\* the pairs on a boundary (0 and 0, 9 after 10) included.
C25_TrendInclusive ==
    TrendDone =>
        trends.risk_trend = IF 10 * LatestRisk >= 11 * PreviousRisk THEN "increasing"
                            ELSE IF 10 * LatestRisk <= 9 * PreviousRisk THEN "decreasing"
                            ELSE "stable"

\* C25, amended: the risk trend is 'increasing' if the latest risk score is
\* above 1.1 times the previous, 'decreasing' if it is below 0.9 times the
\* previous, and 'stable' otherwise, so that a pair on a boundary is 'stable'.
C25_TrendStrict ==
    TrendDone =>
        trends.risk_trend = IF 10 * LatestRisk > 11 * PreviousRisk THEN "increasing"
                            ELSE IF 10 * LatestRisk < 9 * PreviousRisk THEN "decreasing"
                            ELSE "stable"

\* C25: a risk of 9 after a risk of 10, exactly 0.9 times, is stable
C25_Witness ==
    /\ TrendDone
    /\ LatestRisk = 9
    /\ PreviousRisk = 10
    /\ trends.risk_trend = "stable"

\* C25: two periods without risk are stable
C25_ZeroPairReached ==
    /\ TrendDone
    /\ LatestRisk = 0
    /\ PreviousRisk = 0
    /\ trends.risk_trend = "stable"

C25_IncreasingReached == TrendDone /\ trends.risk_trend = "increasing"

C25_DecreasingReached == TrendDone /\ trends.risk_trend = "decreasing"

(***************************************************************************)
(* Properties of the concurrent comparison                                 *)
(***************************************************************************)
\* the entry of the scenario at position i computed alone on the store
AloneEntry(i) == EntryOf(scenarios[i], i - 1, calculateWhatIf(scenarios[i], now))

\* C26: whatever the order in which the callbacks of compareScenarios are
\* resumed, the entry of each scenario (id = index + 1, total, saving,
\* saving_percent, or error) is the one calculateWhatIf gives for that
\* scenario alone on the same store, and the ranks of the comparison are
\* those of the comparison computed one scenario after the other.
C26_InterleavingIndependent ==
    /\ \A i \in DOMAIN tasks : tasks[i].pc = "done" => tasks[i].entry = AloneEntry(i)
    /\ (wpc = "compared" /\ TaskEntries # <<>>) =>
           /\ comparison = compareScenarios(scenarios, now)
           /\ \A i \in DOMAIN tasks :
                 /\ comparison.scenarios[i].id = i
                 /\ comparison.scenarios[i].total = AloneEntry(i).total
                 /\ comparison.scenarios[i].saving = AloneEntry(i).saving
                 /\ comparison.scenarios[i].error = AloneEntry(i).error

\* C26: the second callback settled before the first, the two savings differ
\* and the scenario with the larger saving, the first, is ranked first
C26_Witness ==
    /\ Compared
    /\ completed = <<2, 1>>
    /\ comparison.scenarios[1].rank = 1
    /\ comparison.scenarios[2].rank = 2
    /\ comparison.scenarios[1].saving > comparison.scenarios[2].saving

\* C26: the same with the callbacks settled in the order of the scenarios
C26_InOrderReached ==
    /\ Compared
    /\ completed = <<1, 2>>
    /\ comparison.scenarios[1].rank = 1
    /\ comparison.scenarios[2].rank = 2
    /\ comparison.scenarios[1].saving > comparison.scenarios[2].saving

\* C26: a callback in error settled while the other still waits
C26_ErrorWhileWaiting ==
    /\ wpc = "comparing"
    /\ Len(tasks) = 2
    /\ tasks[2].pc = "done"
    /\ tasks[2].entry.error # ""
    /\ tasks[1].pc = "bill"

(***************************************************************************)
(* Properties of the failing usage reads                                   *)
(***************************************************************************)
ReportDone == apc = "done" /\ dbBill # NoBill

\* the roaming_mb a read of period p stands for: nothing if it fails, as if
\* the period had no record
RoamingRead(read, p) == IF read \in dbFailing THEN 0 ELSE StoredRoaming(p)

\* C27: a daily-usage read that fails (the roaming of the target period, the
\* roaming of the period before, the daily usage) does not abort the report:
\* detectAnomalies returns the category and new-item findings, and the
\* roaming and usage_spike anomalies are those of a store in which the
\* period of the failed read has no records.
C27_FailedReadIsAbsentData ==
    ReportDone =>
        /\ report.status = "ok"
        /\ report.anomalies
               = detectCategoryAnomalies(dbBill, dbHistory, threshold)
                 \o detectNewItemAnomalies(dbBill, dbHistory)
                 \o roamingAnomalies \o usageAnomalies
        /\ Len(Of(roamingAnomalies, "roaming_new", "roaming"))
               = IF /\ RoamingRead("roaming_current", period) > 0
                    /\ RoamingRead("roaming_previous", Preceding(period)) = 0
                 THEN 1 ELSE 0
        /\ Len(Of(roamingAnomalies, "roaming_excessive", "roaming"))
               = IF RoamingRead("roaming_current", period) > 1000 THEN 1 ELSE 0
        /\ Len(roamingAnomalies)
               = Len(Of(roamingAnomalies, "roaming_new", "roaming"))
                 + Len(Of(roamingAnomalies, "roaming_excessive", "roaming"))
        /\ Len(usageAnomalies) = IF "daily" \notin dbFailing /\ SpikeDays # {} THEN 1 ELSE 0

\* C27: the three reads fail on a store with a spike day: the report has its
\* new-item finding and nothing from the usage
C27_Witness ==
    /\ ReportDone
    /\ dbFailing = {"roaming_current", "roaming_previous", "daily"}
    /\ SpikeDays # {}
    /\ report.status = "ok"
    /\ newItemAnomalies # <<>>
    /\ report.anomalies = categoryAnomalies \o newItemAnomalies

\* C27: the read of the period before fails where that period has roaming:
\* roaming_new is emitted as for a period before without records
C27_PreviousReadFails ==
    /\ ReportDone
    /\ dbFailing = {"roaming_previous"}
    /\ StoredRoaming(Preceding(period)) > 0
    /\ Len(Of(roamingAnomalies, "roaming_new", "roaming")) = 1

\* C27: the read of the target period fails where that period has 1500 MB
C27_CurrentReadFails ==
    /\ ReportDone
    /\ dbFailing = {"roaming_current"}
    /\ StoredRoaming(period) = 1500
    /\ roamingAnomalies = <<>>

(***************************************************************************)
(* Properties of the recomputed overage                                    *)
(***************************************************************************)
\* the quantity the bill charges as overage of a kind, item by item
BilledQuantity(category, subtype) ==
    SumSeq([ i \in DOMAIN dbBill.items |->
               IF dbBill.items[i].category = category /\ dbBill.items[i].subtype = subtype
               THEN dbBill.items[i].quantity ELSE 0 ])

\* C28: the overage quantities calculateUsageCharges recomputes for a scenario
\* (GB, minutes, SMS) are those of the bill's overage items, whatever the
\* effective quotas and the extras of the add-ons; the scenario changes the
\* overage cost through the rates of the effective plan alone.
C28_OverageQuantitiesKept ==
    FirstDone =>
        LET u == ScenarioResult(scenario).usage_analysis
            plan == EffectivePlan(scenario)
        IN /\ u.data_overage_gb = BilledQuantity("data", "data_overage")
           /\ u.voice_overage_min = BilledQuantity("voice", "voice_overage")
           /\ u.sms_overage_sms = BilledQuantity("sms", "sms_overage")
           /\ u.data_overage = BilledQuantity("data", "data_overage") * plan.overage_gb
           /\ u.voice_overage = BilledQuantity("voice", "voice_overage") * plan.overage_min
           /\ u.sms_overage = BilledQuantity("sms", "sms_overage") * plan.overage_sms
           /\ u.total = u.data_overage + u.voice_overage + u.sms_overage
           /\ BilledQuantity("data", "data_overage") > 0 =>
                  result1.breakdown["data_overage"] = Rat(u.data_overage)

\* C28: add-on 1 (5 GB more) on plan 1 and a bill with 3 GB of data overage:
\* the quota grows past the overage and the 3 GB are kept
C28_Witness ==
    /\ FirstDone
    /\ scenario.fields = {"addons"}
    /\ scenario.addons = <<1>>
    /\ BilledQuantity("data", "data_overage") = 3
    /\ ScenarioResult(scenario).usage_analysis.effective_quotas.gb = 15
    /\ ScenarioResult(scenario).usage_analysis.data_overage_gb = 3

\* C28: the same quantity on another plan costs that plan's rate
C28_OtherRateReached ==
    /\ FirstDone
    /\ scenario.fields = {"plan_id"}
    /\ scenario.plan_id = 2
    /\ BilledQuantity("voice", "voice_overage") = 20
    /\ ScenarioResult(scenario).usage_analysis.voice_overage = 20 * dbPlans[2].overage_min

MeterDone == overage.pc = "done"

C28_WholeQuantityReached ==
    /\ MeterDone
    /\ meter.quantities = <<10, 10>>
    /\ overage.total_gb = DOfInt(2)
    /\ overage.data_overage_gb = DOfInt(2)

(***************************************************************************)
(* Properties of new items against the category rules                      *)
(***************************************************************************)
NewItemCategories == { newItemAnomalies[i].category : i \in DOMAIN newItemAnomalies }

RuleCategories ==
    { categoryAnomalies[i].category :
        i \in { j \in DOMAIN categoryAnomalies :
                  categoryAnomalies[j].type \in {"statistical", "percentage_increase"} } }

\* C29: in one run no category has both a 'new_item' anomaly and a
\* 'statistical' or 'percentage_increase' anomaly.
C29_NewItemExcludesCategoryRules ==
    NewItemDone => NewItemCategories \cap RuleCategories = {}

\* C29: a run with a new item in one category and a category rule in another,
\* the bills before having charged nothing in the first
C29_Witness ==
    /\ NewItemDone
    /\ historicalBills # <<>>
    /\ "premium_sms" \in NewItemCategories
    /\ "data" \in RuleCategories
    /\ \A i \in DOMAIN historicalBills :
          calculateCategoryTotal(historicalBills[i], "premium_sms") = 0

(***************************************************************************)
(* Properties of short periods                                             *)
(***************************************************************************)
\* C30: with mb_used never negative, a period of three daily records or fewer
\* has no 'usage_spike' anomaly; a spike takes at least four records.
C30_SpikeNeedsFourDays ==
    (UsageDone /\ \A i \in DOMAIN StoredDays : StoredDays[i].mb_used >= 0) =>
        /\ Len(StoredDays) <= 3 => UsageSpikes = <<>>
        /\ UsageSpikes # <<>> => Len(dailyUsage) >= 4

\* C30: three records, all the usage on one day, exactly three times the
\* average: no spike
C30_Witness ==
    /\ UsageDone
    /\ "daily" \notin dbFailing
    /\ Len(StoredDays) = 3
    /\ \E i \in DOMAIN StoredDays : StoredDays[i].mb_used = StoredMb /\ StoredMb > 0
    /\ UsageSpikes = <<>>

\* C30: four records, all the usage on one day: a spike
C30_FourDaysSpikeReached ==
    /\ UsageDone
    /\ Len(StoredDays) = 4
    /\ \E i \in DOMAIN StoredDays : StoredDays[i].mb_used = StoredMb /\ StoredMb > 0
    /\ Len(UsageSpikes) = 1

====
